---------------------------- MODULE Spec2Model ----------------------------
(***************************************************************************)
(* A state-machine model of the KMRL train-scheduling dashboard:           *)
(*   - the localStorage-backed DatabaseManager (lib/database.ts),          *)
(*   - the four API route handlers (schedules, dashboard, ai/conflicts,    *)
(*     ai/optimize),                                                       *)
(*   - the two upload components (FileUpload, UploadModal),                *)
(*   - the ConflictDetector and the ScheduleOptimizer,                     *)
(*   - the components that run timers (RealSchedulingEngine,               *)
(*     LoadingScreen, RealMap),                                            *)
(*   - the email path (emailService, scheduling engine, SendGrid proxy).   *)
(* Each subsystem has its own specification (SpecStore, SpecApi, ...)      *)
(* over the shared variables; the variables of the other subsystems stay   *)
(* at their initial values.                                                *)
(***************************************************************************)
EXTENDS Integers, Sequences, FiniteSets, TLC

VARIABLES
  \* ---- DatabaseManager / localStorage
  ls,             \* localStorage: key -> stored item
  isInitialized,  \* DatabaseManager.isInitialized
  now,            \* Date.now(), in clock ticks
  rt,             \* observation of the last export/import round trip
  \* ---- API routes
  resp,           \* the responses the last request produced, in order
  escaped,        \* TRUE iff an exception left the last handler
  lastReq,        \* the last request: route, method, whether a step of its
                  \* handling threw, and the error's text
  \* ---- ConflictDetector
  cdSchedules,    \* the schedules handed to detectConflicts
  cdConflicts,    \* the conflicts of the last detectConflicts call
  cdDone,         \* TRUE iff cdConflicts is the result for cdSchedules
  \* ---- ScheduleOptimizer.optimizeSchedules
  gaPc,           \* idle, loop (the while test), offspring, done, threw
  gaSchedules,    \* the schedules handed to optimizeSchedules
  gaRoutes,       \* the routes handed to optimizeSchedules
  generation,     \* generation
  population,     \* population
  newPopulation,  \* newPopulation
  bestSolution,   \* bestSolution
  gaResults,      \* the returned optimization results
  \* ---- FileUpload (processFiles)
  fuPc,           \* idle, running, done, failed
  fuFilesLeft,    \* the files of the upload the loop has not reached yet
  fuParsed,       \* the files of the upload parsed and processed so far
  fuAll,          \* allTrains, allRoutes, allSchedules, allStations, allRawData
  isProcessing,   \* isProcessing
  fuError,        \* error
  fuInvoked,      \* TRUE iff the upload under way called onDataUploaded
  \* ---- UploadModal (handleFileUpload)
  umPc,           \* idle, running, done, failed, rejected
  umFile,         \* the extension of the file being uploaded
  isUploading,    \* isUploading
  umError,        \* error
  umSuccess,      \* success
  umCloseTimer,   \* TRUE iff the setTimeout(handleClose, 1500) is pending
  umInvoked,      \* TRUE iff the upload under way called onDataUploaded
  \* ---- the page the upload components report to
  uploadedData,   \* the argument of the last handleDataUpload call
  \* ---- the page and the components that run timers
  pageMounted,    \* TRUE iff the page is mounted
  isInitialLoading, \* isInitialLoading of the page
  mounted,        \* which of LoadingScreen, RealSchedulingEngine and RealMap
                  \* the page shows, "none" when it shows none of them
  lsTimer,        \* LoadingScreen: TRUE iff its setInterval is armed
  totalTime,      \* LoadingScreen: totalTime
  currentStep,    \* LoadingScreen: currentStep
  lsTimeout,      \* LoadingScreen: TRUE iff its setTimeout is pending
  isActive,       \* RealSchedulingEngine: isActive
  engTimer,       \* RealSchedulingEngine: TRUE iff its setInterval is armed
  events,         \* RealSchedulingEngine: the types of events, newest first
  metrics,        \* RealSchedulingEngine: conflicts and optimizationsApplied
  isAIActive,     \* RealMap: isAIActive
  mapTimer,       \* RealMap: TRUE iff its setInterval is armed
  liveTrains,     \* RealMap: the station index of the running train
  lastCallback,   \* the timer callback that ran last, and whether its
                  \* component was mounted with its flag on when it ran
  \* ---- email
  emailConfig,    \* emailService: emailConfig
  lastConfigSet,  \* the argument of the last setEmailConfig call
  settings,       \* Settings: settings.notifications
  requests,       \* the requests to the proxy's /send-email, in order
  conflictEvents, \* how many conflict events the engine has generated
  sgSends,        \* the messages sendConflictNotification handed to sgMail
  lastNotification, \* the last call of sendConflictNotification: its
                  \* argument, what it sent and what it returned
  \* ---- export
  exTab,          \* Export page: the tab shown (quick, history, advanced)
  exportHistory,  \* useExport: exportHistory of each instance of the hook
  isExporting,    \* useExport: isExporting of each instance
  exClearTimer,   \* the timeout of a finished export that clears currentJob
                  \* and isExporting is pending, for each instance
  exPending,      \* the calls of startExport that are at an await
  exCount,        \* how many exports were started
  blobs,          \* the blobs of the object URLs created, and which are live
  lastDownload,   \* the last call of downloadFile and what it delivered
  exFinished,     \* the exports that have finished, with their final status
  \* ---- Settings page and browser storage
  appStorage,     \* localStorage: the keys the pages name -> stored item
  defaultSettings,\* the module object defaultSettings, as it is now
  appSettings,    \* the settings state of the Settings component
  psMounted,      \* TRUE iff the Settings component is mounted
  uiLanguage,     \* the language state of LanguageProvider
  reloadTimer,    \* TRUE iff the reload after 'Clear All Data' is pending
  prefsOp,        \* the last operation on the settings or the storage
  \* ---- overlapping calls of createSchedule
  microtasks,     \* the microtask queue: what follows the awaits, in order
  ccCalls,        \* the number of calls of createSchedule so far
  ccDone,         \* the records the completed calls have returned, in order
  \* ---- ResourceAllocator
  raTrains,       \* the trains handed to optimizeResourceAllocation
  raSchedules,    \* the schedules handed to it
  raAssignments,  \* the trainAssignments of its result
  raDone          \* TRUE iff optimizeResourceAllocation has returned

dbVars  == <<ls, isInitialized, now, rt>>
ccVars  == <<microtasks, ccCalls, ccDone>>
respVars == <<resp, escaped, lastReq>>
apiVars == <<respVars, ccVars>>
cdOnly  == <<cdSchedules, cdConflicts, cdDone>>
raVars  == <<raTrains, raSchedules, raAssignments, raDone>>
cdVars  == <<cdOnly, raVars>>
gaVars  == <<gaPc, gaSchedules, gaRoutes, generation, population,
             newPopulation, bestSolution, gaResults>>
fuVars  == <<fuPc, fuFilesLeft, fuParsed, fuAll, isProcessing, fuError, fuInvoked>>
umVars  == <<umPc, umFile, isUploading, umError, umSuccess, umCloseTimer,
             umInvoked>>
upVars  == <<fuVars, umVars, uploadedData>>
lsVars  == <<lsTimer, totalTime, currentStep, lsTimeout>>
engVars == <<isActive, engTimer, events, metrics>>
mapVars == <<isAIActive, mapTimer, liveTrains>>
tmVars  == <<pageMounted, isInitialLoading, mounted, lsVars, engVars, mapVars,
             lastCallback>>
emVars  == <<emailConfig, lastConfigSet, settings, requests, conflictEvents,
             sgSends>>
nfVars  == <<lastNotification>>
exVars  == <<exTab, exportHistory, isExporting, exClearTimer, exPending,
             exCount, blobs, lastDownload, exFinished>>
psVars  == <<appStorage, defaultSettings, appSettings, psMounted, uiLanguage,
             reloadTimer, prefsOp>>
uiVars  == <<upVars, tmVars, emVars, nfVars, exVars, psVars>>
vars    == <<dbVars, apiVars, cdVars, gaVars, uiVars>>

\* The variables each subsystem leaves alone
exceptDb == <<apiVars, cdVars, gaVars, uiVars>>
exceptCd == <<dbVars, apiVars, gaVars, uiVars, raVars>>
exceptGa == <<dbVars, apiVars, cdVars, uiVars>>
exceptUp == <<dbVars, apiVars, cdVars, gaVars, tmVars, emVars, nfVars, exVars,
              psVars>>
exceptUi == <<dbVars, apiVars, cdVars, gaVars, upVars, nfVars, exVars, psVars>>
exceptEx == <<dbVars, apiVars, cdVars, gaVars, upVars, tmVars, emVars, nfVars,
              psVars>>
exceptRa == <<dbVars, apiVars, cdOnly, gaVars, uiVars>>
exceptPs == <<dbVars, apiVars, cdVars, gaVars, upVars, tmVars, emVars, nfVars,
              exVars>>

---------------------------------------------------------------------------
(* Bounds of the model *)

MaxNow  == 3   \* the clock takes the values 1..MaxNow
MaxRecs == 3   \* a stored collection holds at most MaxRecs records

---------------------------------------------------------------------------
(* JavaScript values and JSON                                              *)
(*                                                                         *)
(* A JS value is a tagged record [t, a]: undefined, null, an array (a is   *)
(* its elements) or an object (a is <<the record>>).  An element's numeric *)
(* fields may hold NaN in memory; JSON turns NaN into null.  A JSON text   *)
(* is [fmt, v]: its layout (compact, or pretty for an indent of 2) and the *)
(* value it denotes.                                                       *)

NaNNum  == 0 - 1     \* NaN in a numeric field
NullNum == 0 - 2     \* null in a numeric field
NumFields == {"capacity", "delayMinutes"}

Undef   == [t |-> "undefined", a |-> << >>]
JNull   == [t |-> "null", a |-> << >>]
Arr(s)  == [t |-> "array", a |-> s]
Obj(r)  == [t |-> "object", a |-> <<r>>]

\* JS truthiness of a value (if (data.trains) ...)
Truthy(v) == v.t \in {"array", "object"}

\* JSON.stringify on one element: NaN becomes null
NormElem(e) ==
  [f \in DOMAIN e |-> IF f \in NumFields /\ e[f] = NaNNum THEN NullNum ELSE e[f]]

\* The JSON value JSON.stringify writes for v (undefined has none: its
\* property is dropped by the caller)
NormValue(v) ==
  IF v.t \in {"array", "object"}
    THEN [t |-> v.t, a |-> [i \in 1..Len(v.a) |-> NormElem(v.a[i])]]
    ELSE JNull

\* JSON.stringify(v) and JSON.stringify(v, null, 2)
Stringify(v)       == [fmt |-> "compact", v |-> NormValue(v)]
StringifyPretty(v) == [fmt |-> "pretty", v |-> NormValue(v)]

\* JSON.parse(text)
Parse(text) == text.v

---------------------------------------------------------------------------
(* Sample data (lib/sampleData.ts)                                         *)

Keys == {"kmrl_trains", "kmrl_routes", "kmrl_schedules",
         "kmrl_conflicts", "kmrl_kpis", "kmrl_datasets"}

InvalidDate == 0 - 1   \* a time string that new Date() cannot parse

\* An id string: a literal prefix, a number, and further parts (each a
\* <<label, number>> pair); Id("schedule-", 7) is `schedule-${7}`
IdK(kind, n, k) == [kind |-> kind, n |-> n, k |-> k]
Id(kind, n) == IdK(kind, n, << >>)
NoId == Id("", 0)      \* the empty string

SampleTrains ==
  << [id |-> Id("train-00", 1), status |-> "active", capacity |-> 1200],
     [id |-> Id("train-00", 2), status |-> "active", capacity |-> 1200] >>

SampleRoutes ==
  << [id |-> Id("route-00", 1), startStation |-> "Aluva",
      endStation |-> "Maharajas College", estimatedDuration |-> 45,
      stations |-> {"Aluva", "MG Road", "Maharajas College"}],
     [id |-> Id("route-00", 2), startStation |-> "Maharajas College",
      endStation |-> "Aluva", estimatedDuration |-> 45,
      stations |-> {"Aluva", "MG Road", "Maharajas College"}] >>

\* generateSampleSchedules: the first 15-minute slot (06:00), one schedule
\* per route, trains taken round robin; times in minutes of the day
SampleSchedules ==
  << [id |-> Id("schedule-00", 1), trainId |-> Id("train-00", 1),
      routeId |-> Id("route-00", 1), dep |-> 360, arr |-> 405,
      status |-> "scheduled", delayMinutes |-> 0, passengerCount |-> 240],
     [id |-> Id("schedule-00", 2), trainId |-> Id("train-00", 2),
      routeId |-> Id("route-00", 2), dep |-> 360, arr |-> 405,
      status |-> "scheduled", delayMinutes |-> 0, passengerCount |-> 240] >>

SampleConflicts ==
  << [id |-> Id("conflict-00", 1), scheduleId1 |-> Id("schedule-0", 45),
      scheduleId2 |-> Id("schedule-0", 46), conflictType |-> "temporal_overlap",
      severity |-> "medium", resolved |-> FALSE] >>

SampleKPIs == [totalTrains |-> 5, conflictsDetected |-> 3, lastUpdated |-> 0]

SampleData ==
  [kmrl_trains |-> Arr(SampleTrains), kmrl_routes |-> Arr(SampleRoutes),
   kmrl_schedules |-> Arr(SampleSchedules), kmrl_conflicts |-> Arr(SampleConflicts),
   kmrl_kpis |-> Obj(SampleKPIs), kmrl_datasets |-> Arr(<< >>)]

---------------------------------------------------------------------------
(* localStorage and DatabaseManager (lib/database.ts)                      *)

Absent == [present |-> FALSE, text |-> Stringify(JNull)]
Item(text) == [present |-> TRUE, text |-> text]

\* localStorage.setItem(k, JSON.stringify(v))
SetItem(l, k, v) == [l EXCEPT ![k] = Item(Stringify(v))]

\* DatabaseManager.initialize: the store and the flag after the call
Initialize(l, init) ==
  IF init THEN [ls |-> l, init |-> TRUE]
  ELSE IF ~l["kmrl_trains"].present
    THEN [ls |-> [k \in Keys |-> Item(Stringify(SampleData[k]))], init |-> TRUE]
    ELSE [ls |-> l, init |-> TRUE]

\* The fallback of each getter when its key is absent
DefaultOf(k) == IF k = "kmrl_kpis" THEN Obj(SampleKPIs) ELSE Arr(<< >>)

\* the part of getTrains/getRoutes/... after initialize:
\* item ? JSON.parse(item) : default
ReadKey(l, k) == IF l[k].present THEN Parse(l[k].text) ELSE DefaultOf(k)

\* The six collections as the getters return them on an initialised store
ReadAll(l) == [k \in Keys |-> ReadKey(l, k)]

\* DatabaseManager.clearAllData
ClearAllDataLs(l) == [k \in Keys |-> Absent]

\* DatabaseManager.exportData, after its initialize: the JSON string of
\* {trains, routes, schedules, conflicts, kpis, datasets, exportedAt}
ExportData(l, t) ==
  [fmt |-> "pretty",
   v |-> Obj([trains    |-> NormValue(ReadKey(l, "kmrl_trains")),
              routes    |-> NormValue(ReadKey(l, "kmrl_routes")),
              schedules |-> NormValue(ReadKey(l, "kmrl_schedules")),
              conflicts |-> NormValue(ReadKey(l, "kmrl_conflicts")),
              kpis      |-> NormValue(ReadKey(l, "kmrl_kpis")),
              datasets  |-> NormValue(ReadKey(l, "kmrl_datasets")),
              exportedAt |-> t])]

\* The property of the imported document that importData stores under key k
PropOf(k) ==
  CASE k = "kmrl_trains"    -> "trains"
    [] k = "kmrl_routes"    -> "routes"
    [] k = "kmrl_schedules" -> "schedules"
    [] k = "kmrl_conflicts" -> "conflicts"
    [] k = "kmrl_kpis"      -> "kpis"
    [] k = "kmrl_datasets"  -> "datasets"

\* data.trains, data.routes, ...: undefined when the document has no such property
DataProp(data, p) ==
  IF data.t = "object" /\ p \in DOMAIN data.a[1] THEN data.a[1][p] ELSE Undef

\* A copy-and-paste slip: the conflicts line stores data.schedules
ImportDataKeyMixup(l, jsonData) ==
  LET data == Parse(jsonData)
      from(k) == IF k = "kmrl_conflicts" THEN "schedules" ELSE PropOf(k)
  IN [k \in Keys |->
        IF Truthy(DataProp(data, from(k)))
          THEN Item(Stringify(DataProp(data, from(k)))) ELSE l[k]]

\* DatabaseManager.importData:
\* if (data.X) localStorage.setItem('kmrl_X', JSON.stringify(data.X))
ImportData(l, jsonData) ==
  LET data == Parse(jsonData)
  IN [k \in Keys |->
        IF Truthy(DataProp(data, PropOf(k)))
          THEN Item(Stringify(DataProp(data, PropOf(k)))) ELSE l[k]]

---------------------------------------------------------------------------
(* Dates.  A time string is modelled by the minute of the day it denotes,  *)
(* InvalidDate when new Date() cannot parse it; getTime() of that is NaN,  *)
(* and every comparison with NaN is false.                                 *)

ValidDate(t) == t # InvalidDate
\* a < b on getTime() values
DateLt(a, b) == ValidDate(a) /\ ValidDate(b) /\ a < b
\* new Date(t).getHours()
HoursOf(t) == (t \div 60) % 24
Min2(a, b) == IF a < b THEN a ELSE b
Max2(a, b) == IF a > b THEN a ELSE b

---------------------------------------------------------------------------
(* ConflictDetector (lib/ai/conflictDetector.ts).  A conflict keeps its    *)
(* id, the two schedule ids, its type, severity and resolved flag; the     *)
(* description, suggested resolution and confidence score are texts and    *)
(* fractions no operation reads, and are left out.                         *)

SAFETY_BUFFER_MINUTES == 5
TURNAROUND_TIME_MINUTES == 10
REPOSITIONING_TURNAROUND == 20
PEAK_HOURS == {7, 8, 9, 17, 18, 19}
MaxHourlyCapacity == 10000

\* routes.find(r => r.id === id): the sequence of matches, first one used
FindRoute(routes, id) == SelectSeq(routes, LAMBDA r : r.id = id)

\* ConflictDetector.hasRouteOverlap
HasRouteOverlap(s1, s2, routes) ==
  LET f1 == FindRoute(routes, s1.routeId)
      f2 == FindRoute(routes, s2.routeId)
  IN IF Len(f1) = 0 \/ Len(f2) = 0 THEN FALSE
     ELSE f1[1].stations \cap f2[1].stations # {}

\* The comparison of checkTemporalOverlap with the bounds swapped for <=,
\* an off-by-one at the buffer's edge
HasOverlapInclusive(s1, s2) ==
  /\ ValidDate(s1.dep) /\ ValidDate(s1.arr) /\ ValidDate(s2.dep) /\ ValidDate(s2.arr)
  /\ s1.dep - SAFETY_BUFFER_MINUTES <= s2.arr
  /\ s2.dep - SAFETY_BUFFER_MINUTES <= s1.arr

\* hasOverlap of checkTemporalOverlap:
\* start1 - buffer < end2 && start2 - buffer < end1
HasOverlap(s1, s2) ==
  /\ ValidDate(s1.dep) /\ ValidDate(s1.arr) /\ ValidDate(s2.dep) /\ ValidDate(s2.arr)
  /\ s1.dep - SAFETY_BUFFER_MINUTES < s2.arr
  /\ s2.dep - SAFETY_BUFFER_MINUTES < s1.arr

\* ConflictDetector.checkTemporalOverlap: << >> for null, else <<conflict>>
CheckTemporalOverlap(s1, s2, t) ==
  IF HasOverlap(s1, s2)
    THEN LET overlapMinutes == Min2(s1.arr, s2.arr) - Max2(s1.dep, s2.dep)
         IN << [id |-> Id("conflict-temporal-", t),
                scheduleId1 |-> s1.id, scheduleId2 |-> s2.id,
                conflictType |-> "temporal_overlap",
                severity |-> IF overlapMinutes > 10 THEN "high"
                             ELSE IF overlapMinutes > 5 THEN "medium" ELSE "low",
                resolved |-> FALSE] >>
    ELSE << >>

\* The pairs (i, j), i < j <= n, in the order of the nested loops
RECURSIVE PairsFrom(_, _, _)
PairsFrom(i, j, n) ==
  IF i >= n THEN << >>
  ELSE IF j > n THEN PairsFrom(i + 1, i + 2, n)
  ELSE <<<<i, j>>>> \o PairsFrom(i, j + 1, n)

RECURSIVE Concat(_)
Concat(ss) == IF Len(ss) = 0 THEN << >> ELSE ss[1] \o Concat(Tail(ss))

\* ConflictDetector.detectTemporalConflicts
DetectTemporalConflicts(schedules, routes, t) ==
  LET ps == PairsFrom(1, 2, Len(schedules))
  IN Concat([p \in 1..Len(ps) |->
       IF HasRouteOverlap(schedules[ps[p][1]], schedules[ps[p][2]], routes)
         THEN CheckTemporalOverlap(schedules[ps[p][1]], schedules[ps[p][2]], t)
         ELSE << >>])

\* The train ids in the order a Map first sees them
RECURSIVE TrainOrder(_, _)
TrainOrder(schedules, seen) ==
  IF Len(schedules) = 0 THEN << >>
  ELSE IF schedules[1].trainId \in seen THEN TrainOrder(Tail(schedules), seen)
  ELSE <<schedules[1].trainId>>
         \o TrainOrder(Tail(schedules), seen \cup {schedules[1].trainId})

\* The comparator a.departure - b.departure > 0 (NaN is treated as 0)
DepAfter(a, b) == ValidDate(a.dep) /\ ValidDate(b.dep) /\ a.dep > b.dep

\* Array.prototype.sort by departure time: stable insertion
RECURSIVE InsertByDeparture(_, _)
InsertByDeparture(sorted, x) ==
  IF Len(sorted) = 0 THEN <<x>>
  ELSE IF DepAfter(sorted[Len(sorted)], x)
    THEN Append(InsertByDeparture(SubSeq(sorted, 1, Len(sorted) - 1), x),
                sorted[Len(sorted)])
    ELSE Append(sorted, x)

RECURSIVE SortByDeparture(_)
SortByDeparture(list) ==
  IF Len(list) = 0 THEN << >>
  ELSE InsertByDeparture(SortByDeparture(SubSeq(list, 1, Len(list) - 1)),
                         list[Len(list)])

\* The schedules of each train, in Map order, each list sorted by departure
TrainGroups(schedules) ==
  LET order == TrainOrder(schedules, {})
  IN [g \in 1..Len(order) |->
        [trainId |-> order[g],
         list |-> SortByDeparture(
                    SelectSeq(schedules, LAMBDA x : x.trainId = order[g]))]]

\* gap in minutes between two consecutive schedules of a train (NaN when
\* a date is invalid: then no comparison holds)
GapValid(prev, cur) == ValidDate(prev.arr) /\ ValidDate(cur.dep)
Gap(prev, cur) == cur.dep - prev.arr

\* ConflictDetector.detectResourceConflicts
DetectResourceConflicts(schedules, t) ==
  LET groups == TrainGroups(schedules)
      one(list, i) ==
        IF GapValid(list[i - 1], list[i])
           /\ Gap(list[i - 1], list[i]) < TURNAROUND_TIME_MINUTES
          THEN << [id |-> IdK("conflict-resource-", t, <<<<"i", i - 1>>>>),
                   scheduleId1 |-> list[i - 1].id, scheduleId2 |-> list[i].id,
                   conflictType |-> "resource_conflict",
                   severity |-> IF Gap(list[i - 1], list[i]) < 5 THEN "high"
                                ELSE "medium",
                   resolved |-> FALSE] >>
          ELSE << >>
      ofGroup(list) == Concat([i \in 1..(Len(list) - 1) |-> one(list, i + 1)])
  IN Concat([g \in 1..Len(groups) |-> ofGroup(groups[g].list)])

\* ConflictDetector.detectTurnaroundConflicts: its conflicts carry the
\* type temporal_overlap
DetectTurnaroundConflicts(schedules, routes, t) ==
  LET groups == TrainGroups(schedules)
      one(list, i) ==
        LET prev == list[i - 1]
            cur == list[i]
            pr == FindRoute(routes, prev.routeId)
            cr == FindRoute(routes, cur.routeId)
        IN IF Len(pr) = 0 \/ Len(cr) = 0 THEN << >>
           ELSE LET needsRepositioning == pr[1].endStation # cr[1].startStation
                    required == IF needsRepositioning THEN REPOSITIONING_TURNAROUND
                                ELSE TURNAROUND_TIME_MINUTES
                IN IF GapValid(prev, cur) /\ Gap(prev, cur) < required
                     THEN << [id |-> IdK("conflict-turnaround-", t, <<<<"i", i - 1>>>>),
                              scheduleId1 |-> prev.id, scheduleId2 |-> cur.id,
                              conflictType |-> "temporal_overlap",
                              severity |-> IF 2 * Gap(prev, cur) < required
                                           THEN "high" ELSE "medium",
                              resolved |-> FALSE] >>
                     ELSE << >>
      ofGroup(list) == Concat([i \in 1..(Len(list) - 1) |-> one(list, i + 1)])
  IN Concat([g \in 1..Len(groups) |-> ofGroup(groups[g].list)])

\* Ids of kind "R" are written without a hyphen (R1, R2); every other id
\* of the model contains one (route-001, train-1700000000000).
HasHyphen(id) == id.kind # "R"

\* new Date(t).getHours(), NaN (no hour of the day) for an invalid date
HourKey(t) == IF ValidDate(t) THEN HoursOf(t) ELSE InvalidDate

\* The keys `${routeId}-${hour}` in the order the Map first sees them
RECURSIVE CapacityKeys(_, _)
CapacityKeys(schedules, seen) ==
  IF Len(schedules) = 0 THEN << >>
  ELSE LET key == <<schedules[1].routeId, HourKey(schedules[1].dep)>>
       IN IF key \in seen THEN CapacityKeys(Tail(schedules), seen)
          ELSE <<key>> \o CapacityKeys(Tail(schedules), seen \cup {key})

RECURSIVE SumPassengers(_)
SumPassengers(list) ==
  IF Len(list) = 0 THEN 0 ELSE list[1].passengerCount + SumPassengers(Tail(list))

\* ConflictDetector.detectCapacityConflicts.  routeKey.split('-') gives
\* the text before the first hyphen as routeId and the next piece as the
\* hour, so a hyphenated route id is cut short and finds no route.
DetectCapacityConflicts(schedules, routes, t) ==
  LET keys == CapacityKeys(schedules, {})
      one(key) ==
        LET list == SelectSeq(schedules,
                      LAMBDA x : <<x.routeId, HourKey(x.dep)>> = key)
            capacity == SumPassengers(list)
            found == IF HasHyphen(key[1]) THEN << >> ELSE FindRoute(routes, key[1])
        IN IF Len(found) > 0 /\ key[2] \in PEAK_HOURS /\ capacity > MaxHourlyCapacity
             THEN << [id |-> IdK("conflict-capacity-", t,
                               <<<<key[1].kind, key[1].n>>, <<"h", key[2]>>>>),
                      scheduleId1 |-> list[1].id,
                      scheduleId2 |-> list[Len(list)].id,
                      conflictType |-> "capacity_exceeded",
                      severity |-> IF 10 * capacity > 12 * MaxHourlyCapacity
                                   THEN "high" ELSE "medium",
                      resolved |-> FALSE] >>
             ELSE << >>
  IN Concat([k \in 1..Len(keys) |-> one(keys[k])])

\* maintenanceWindows of detectMaintenanceConflicts, in minutes of the day
MaintenanceWindows ==
  << [trainId |-> Id("train-00", 4), start |-> 2 * 60, end |-> 5 * 60],
     [trainId |-> Id("train-00", 2), start |-> 60 + 30, end |-> 3 * 60 + 30] >>

\* ConflictDetector.detectMaintenanceConflicts
DetectMaintenanceConflicts(schedules, t) ==
  LET one(sch, w) ==
        IF sch.trainId = w.trainId /\ ValidDate(sch.dep)
           /\ sch.dep % (24 * 60) >= w.start /\ sch.dep % (24 * 60) <= w.end
          THEN << [id |-> IdK("conflict-maintenance-", t,
                            <<<<sch.id.kind, sch.id.n>>>>),
                   scheduleId1 |-> sch.id, scheduleId2 |-> NoId,
                   conflictType |-> "maintenance_conflict",
                   severity |-> "high",
                   resolved |-> FALSE] >>
          ELSE << >>
      ofSchedule(sch) ==
        Concat([w \in 1..Len(MaintenanceWindows) |-> one(sch, MaintenanceWindows[w])])
  IN Concat([i \in 1..Len(schedules) |-> ofSchedule(schedules[i])])

\* The conflicts of ConflictDetector.detectConflicts, without the
\* turnaround check that is appended last
DetectConflictsNoTurnaround(schedules, routes, t) ==
  DetectTemporalConflicts(schedules, routes, t)
    \o DetectResourceConflicts(schedules, t)
    \o DetectCapacityConflicts(schedules, routes, t)
    \o DetectMaintenanceConflicts(schedules, t)

\* The conflicts of ConflictDetector.detectConflicts
DetectConflicts(schedules, routes, t) ==
  DetectTemporalConflicts(schedules, routes, t)
    \o DetectResourceConflicts(schedules, t)
    \o DetectCapacityConflicts(schedules, routes, t)
    \o DetectMaintenanceConflicts(schedules, t)
    \o DetectTurnaroundConflicts(schedules, routes, t)

---------------------------------------------------------------------------
(* ScheduleOptimizer (lib/ai/optimizer.ts).  An individual is a list of    *)
(* schedules.  The minutes that the random adjustments add to a time, and  *)
(* the fitness fractions, decide no loop bound, length or id: a time that  *)
(* went through adjustTime is kept as AdjustedDate, and the individuals    *)
(* the fitness ranking and the tournaments pick are free choices.          *)

populationSize == 50
maxGenerations == 100
eliteCount == populationSize \div 10     \* Math.floor(populationSize * 0.1)

AdjustedDate == 0 - 3    \* a valid date moved by some minutes
NoResult == [threw |-> TRUE, v |-> << >>]
Returned(v) == [threw |-> FALSE, v |-> v]

\* ScheduleOptimizer.adjustTime: toISOString() throws a RangeError on an
\* invalid date
AdjustTime(t) == IF ValidDate(t) THEN Returned(<<AdjustedDate>>) ELSE NoResult

\* One individual of initializePopulation: schedules.map(...)
InitialIndividual(schedules) ==
  IF \E i \in 1..Len(schedules) :
       AdjustTime(schedules[i].dep).threw \/ AdjustTime(schedules[i].arr).threw
    THEN NoResult
    ELSE Returned([i \in 1..Len(schedules) |->
           [schedules[i] EXCEPT !.dep = AdjustTime(schedules[i].dep).v[1],
                                !.arr = AdjustTime(schedules[i].arr).v[1]]])

\* The initial population built by a loop that stops one short
InitializePopulationShort(schedules) ==
  IF InitialIndividual(schedules).threw THEN NoResult
  ELSE Returned([i \in 1..(populationSize - 1) |-> InitialIndividual(schedules).v])

\* ScheduleOptimizer.initializePopulation
InitializePopulation(schedules) ==
  IF InitialIndividual(schedules).threw THEN NoResult
  ELSE Returned([i \in 1..populationSize |-> InitialIndividual(schedules).v])

\* ScheduleOptimizer.crossover with crossoverPoint = cp (0-based)
Crossover(parent1, parent2, cp) ==
  SubSeq(parent1, 1, cp) \o SubSeq(parent2, cp + 1, Len(parent2))

\* route.estimatedDuration is a number (the Route type declares
\* estimatedTime; a route without estimatedDuration yields undefined)
HasDuration(route) == route.estimatedDuration # NaNNum

\* Every route carries a numeric estimatedDuration
AllDurationsKnown(routes) ==
  \A i \in 1..Len(routes) : HasDuration(routes[i])

\* ScheduleOptimizer.mutate with mutationIndex = m (1-based here)
Mutate(individual, m, routes) ==
  LET schedule == individual[m]
      newDeparture == AdjustTime(schedule.dep)
      found == FindRoute(routes, schedule.routeId)
  IN IF newDeparture.threw THEN NoResult
     ELSE IF Len(found) = 0 THEN Returned(individual)
     ELSE IF ~HasDuration(found[1]) THEN NoResult
     ELSE Returned([individual EXCEPT ![m] =
            [schedule EXCEPT !.dep = newDeparture.v[1], !.arr = AdjustedDate]])

\* ScheduleOptimizer.convertToOptimizationResults
ConvertToOptimizationResults(originalSchedules, optimizedSchedules, t) ==
  Concat([i \in 1..Len(originalSchedules) |->
    IF i <= Len(optimizedSchedules)
      THEN << [id |-> IdK("opt-", t, <<<<"i", i - 1>>>>),
               originalScheduleId |-> originalSchedules[i].id,
               optimizedDepartureTime |-> optimizedSchedules[i].dep,
               optimizedArrivalTime |-> optimizedSchedules[i].arr] >>
      ELSE << >>])

\* Math.floor(Math.random() * len) + 1: the first and the last index stand
\* for the range
RandomIndices(len) == IF len = 0 THEN {} ELSE {1, len}

---------------------------------------------------------------------------
(* DatabaseManager operations as the API handlers call them: on a store    *)
(* st = [ls, init], each returns the store it leaves and either a value or *)
(* the error it threw.  fault is the state of the storage: "none",         *)
(* "unavailable" (every localStorage access throws) or "quota" (setItem    *)
(* throws).                                                                *)

Faults == {"none", "unavailable", "quota"}
Ret(st, v) == [st |-> st, threw |-> FALSE, err |-> "", v |-> v]
Throw(st, err) == [st |-> st, threw |-> TRUE, err |-> err, v |-> JNull]
IsArray(v) == v.t = "array"

\* DatabaseManager.initialize
DbInitialize(st, fault) ==
  IF st.init THEN Ret(st, JNull)
  ELSE IF fault = "unavailable" \/ (fault = "quota" /\ ~st.ls["kmrl_trains"].present)
    THEN Throw(st, "Database initialization failed")
    ELSE Ret(Initialize(st.ls, st.init), JNull)

\* getTrains, getRoutes, getSchedules(), getConflicts, getKPIs
DbGet(st, k, fault) ==
  LET i == DbInitialize(st, fault)
  IN IF i.threw THEN i
     ELSE IF fault = "unavailable" THEN Throw(i.st, "localStorage is not defined")
     ELSE Ret(i.st, ReadKey(i.st.ls, k))

\* localStorage.setItem(k, JSON.stringify(v)), returning ret
DbSet(st, k, v, ret, fault) ==
  IF fault = "unavailable" THEN Throw(st, "localStorage is not defined")
  ELSE IF fault = "quota" THEN Throw(st, "QuotaExceededError")
  ELSE Ret([ls |-> SetItem(st.ls, k, v), init |-> st.init], ret)

\* DatabaseManager.createSchedule
DbCreateSchedule(st, schedule, t, fault) ==
  LET g == DbGet(st, "kmrl_schedules", fault)
      newSchedule == [schedule EXCEPT !.id = Id("schedule-", t)]
  IN IF g.threw THEN g
     ELSE IF ~IsArray(g.v) THEN Throw(g.st, "schedules.push is not a function")
     ELSE DbSet(g.st, "kmrl_schedules", Arr(Append(g.v.a, newSchedule)),
                Obj(newSchedule), fault)

\* {...a, ...b}: the fields of b override those of a
Spread(a, b) == [f \in DOMAIN a |-> IF f \in DOMAIN b THEN b[f] ELSE a[f]]

\* The indices of the records with the given id, in order
IndicesOf(list, id) ==
  SelectSeq([i \in 1..Len(list) |-> i], LAMBDA i : list[i].id = id)

\* DatabaseManager.updateSchedule
DbUpdateSchedule(st, id, updates, fault) ==
  LET g == DbGet(st, "kmrl_schedules", fault)
  IN IF g.threw THEN g
     ELSE IF ~IsArray(g.v) THEN Throw(g.st, "schedules.findIndex is not a function")
     ELSE IF Len(IndicesOf(g.v.a, id)) = 0 THEN Ret(g.st, JNull)
     ELSE LET index == IndicesOf(g.v.a, id)[1]
              updated == Spread(g.v.a[index], updates)
          IN DbSet(g.st, "kmrl_schedules", Arr([g.v.a EXCEPT ![index] = updated]),
                   Obj(updated), fault)

\* DatabaseManager.deleteSchedule: v is an array (true) or null (false)
DbDeleteSchedule(st, id, fault) ==
  LET g == DbGet(st, "kmrl_schedules", fault)
  IN IF g.threw THEN g
     ELSE IF ~IsArray(g.v) THEN Throw(g.st, "schedules.filter is not a function")
     ELSE LET filtered == SelectSeq(g.v.a, LAMBDA x : x.id # id)
          IN IF Len(filtered) = Len(g.v.a) THEN Ret(g.st, JNull)
             ELSE DbSet(g.st, "kmrl_schedules", Arr(filtered), Arr(<< >>), fault)

\* DatabaseManager.createConflict
DbCreateConflict(st, conflict, t, fault) ==
  LET g == DbGet(st, "kmrl_conflicts", fault)
      newConflict == [conflict EXCEPT !.id = Id("conflict-", t)]
  IN IF g.threw THEN g
     ELSE IF ~IsArray(g.v) THEN Throw(g.st, "conflicts.push is not a function")
     ELSE DbSet(g.st, "kmrl_conflicts", Arr(Append(g.v.a, newConflict)),
                Obj(newConflict), fault)

\* for (const conflict of conflicts) await db.createConflict(conflict)
RECURSIVE DbCreateConflicts(_, _, _, _)
DbCreateConflicts(st, conflicts, t, fault) ==
  IF Len(conflicts) = 0 THEN Ret(st, JNull)
  ELSE LET c == DbCreateConflict(st, conflicts[1], t, fault)
       IN IF c.threw THEN c ELSE DbCreateConflicts(c.st, Tail(conflicts), t, fault)

\* A boolean a method returns
JBool(b) == [t |-> "boolean", a |-> <<b>>]

\* DatabaseManager.resolveConflict
DbResolveConflict(st, id, fault) ==
  LET g == DbGet(st, "kmrl_conflicts", fault)
  IN IF g.threw THEN g
     ELSE IF ~IsArray(g.v) THEN Throw(g.st, "conflicts.findIndex is not a function")
     ELSE IF Len(IndicesOf(g.v.a, id)) = 0 THEN Ret(g.st, JBool(FALSE))
     ELSE LET index == IndicesOf(g.v.a, id)[1]
          IN DbSet(g.st, "kmrl_conflicts",
                   Arr([g.v.a EXCEPT ![index].resolved = TRUE]), JBool(TRUE), fault)

\* updateKPIs writing under the key of the conflicts
DbUpdateKPIsUnderConflicts(st, kpis, fault) ==
  DbSet(st, "kmrl_conflicts", Obj(kpis), JNull, fault)

\* DatabaseManager.updateKPIs
DbUpdateKPIs(st, kpis, fault) == DbSet(st, "kmrl_kpis", Obj(kpis), JNull, fault)

---------------------------------------------------------------------------
(* The API route handlers.  A response is its status and its JSON body:    *)
(* the set of top-level fields the body carries, and the values of         *)
(* success, message and data.  A request is [method, id, trainId, page,    *)
(* body], body being Undef or Obj(record).                                 *)

Response(status, fields, success, message, data) ==
  [status |-> status, fields |-> fields, success |-> success,
   message |-> message, data |-> data]

\* A body written without its message
EnvelopeWithoutMessage(status, success, message, data) ==
  Response(status, {"data", "success"}, success, "", data)

\* res.status(status).json({data, success, message})
Envelope(status, success, message, data) ==
  Response(status, {"data", "success", "message"}, success, message, data)

\* The same with a meta field
EnvelopeMeta(status, success, message, data) ==
  Response(status, {"data", "success", "message", "meta"}, success, message, data)

NoTime == 0 - 4        \* a time field that is missing or empty
PerPage == 20          \* the default of the limit query parameter
EmptyObject == Obj(<< >>)

\* array.slice(start, end), 0-based
Slice(list, start, end) == SubSeq(list, start + 1, Min2(end, Len(list)))

\* What a handler did inside its try block: the store it left, and the
\* response it sent or the error it threw
Sent(st, response) == [st |-> st, threw |-> FALSE, err |-> "", sent |-> <<response>>]
Threw(r) == [st |-> r.st, threw |-> TRUE, err |-> r.err, sent |-> << >>]

\* handleGetSchedules
HandleGetSchedules(req, st, fault) ==
  LET g == DbGet(st, "kmrl_schedules", fault)
  IN IF g.threw THEN Threw(g)
     ELSE IF ~IsArray(g.v)
       THEN Threw(Throw(g.st, "allSchedules.filter is not a function"))
     ELSE LET schedules == SelectSeq(g.v.a,
                LAMBDA x : req.trainId = NoId \/ x.trainId = req.trainId)
              startIndex == (req.page - 1) * PerPage
          IN Sent(g.st, Response(200, {"data", "success", "meta"}, TRUE, "",
                     Arr(Slice(schedules, startIndex, startIndex + PerPage))))

\* new Date(departureTime) >= new Date(arrivalTime)
DateGeq(a, b) == ValidDate(a) /\ ValidDate(b) /\ a >= b

\* handleCreateSchedule
HandleCreateSchedule(req, st, t, fault) ==
  IF req.body.t # "object"
    THEN Threw(Throw(st, "Cannot destructure property 'trainId' of 'req.body'"))
  ELSE LET b == req.body.a[1]
       IN IF b.trainId = NoId \/ b.routeId = NoId \/ b.dep = NoTime \/ b.arr = NoTime
            THEN Sent(st, Envelope(400, FALSE,
                   "Missing required fields: trainId, routeId, departureTime, arrivalTime",
                   JNull))
          ELSE IF DateGeq(b.dep, b.arr)
            THEN Sent(st, Envelope(400, FALSE,
                   "Departure time must be before arrival time", JNull))
          ELSE LET c == DbCreateSchedule(st,
                          [id |-> NoId, trainId |-> b.trainId, routeId |-> b.routeId,
                           dep |-> b.dep, arr |-> b.arr, status |-> b.status,
                           delayMinutes |-> 0, passengerCount |-> 0], t, fault)
               IN IF c.threw THEN Threw(c)
                  ELSE Sent(c.st, Envelope(201, TRUE,
                         "Schedule created successfully", c.v))

\* The updates of a PUT body: the fields it names
UpdatesOf(body) ==
  IF body.t # "object" THEN << >>
  ELSE [f \in {g \in {"trainId", "routeId"} : body.a[1][g] # NoId} \cup
               {g \in {"dep", "arr"} : body.a[1][g] # NoTime} \cup
               {g \in {"status"} : body.a[1][g] # ""} |-> body.a[1][f]]

\* handleUpdateSchedule
HandleUpdateSchedule(req, st, fault) ==
  IF req.id = NoId
    THEN Sent(st, Envelope(400, FALSE, "Schedule ID is required", JNull))
  ELSE LET u == DbUpdateSchedule(st, req.id, UpdatesOf(req.body), fault)
       IN IF u.threw THEN Threw(u)
          ELSE IF u.v = JNull
            THEN Sent(u.st, Envelope(404, FALSE, "Schedule not found", JNull))
          ELSE Sent(u.st, Envelope(200, TRUE, "Schedule updated successfully", u.v))

\* handleDeleteSchedule
HandleDeleteSchedule(req, st, fault) ==
  IF req.id = NoId
    THEN Sent(st, Envelope(400, FALSE, "Schedule ID is required", JNull))
  ELSE LET d == DbDeleteSchedule(st, req.id, fault)
       IN IF d.threw THEN Threw(d)
          ELSE IF d.v = JNull
            THEN Sent(d.st, Envelope(404, FALSE, "Schedule not found", JNull))
          ELSE Sent(d.st, Envelope(200, TRUE, "Schedule deleted successfully", JNull))

\* The try block of the /api/schedules handler: the switch on req.method
SchedulesTry(req, st, t, fault) ==
  CASE req.method = "GET"    -> HandleGetSchedules(req, st, fault)
    [] req.method = "POST"   -> HandleCreateSchedule(req, st, t, fault)
    [] req.method = "PUT"    -> HandleUpdateSchedule(req, st, fault)
    [] req.method = "DELETE" -> HandleDeleteSchedule(req, st, fault)
    [] OTHER -> Sent(st, Envelope(405, FALSE, "Method ${req.method} not allowed", JNull))

\* A catch block that passes the error's text on to the client
CatchLeakingError(try, message, data) ==
  IF try.threw
    THEN [st |-> try.st, threw |-> TRUE, err |-> try.err, escaped |-> FALSE,
          resp |-> try.sent \o <<Envelope(500, FALSE, try.err, data)>>]
    ELSE [st |-> try.st, threw |-> FALSE, err |-> "", escaped |-> FALSE,
          resp |-> try.sent]

\* try { ... } catch (error) { return res.status(500).json({data, success:
\* false, message}) }: what the handler made of its try block
Catch(try, message, data) ==
  IF try.threw
    THEN [st |-> try.st, threw |-> TRUE, err |-> try.err, escaped |-> FALSE,
          resp |-> try.sent \o <<Envelope(500, FALSE, message, data)>>]
    ELSE [st |-> try.st, threw |-> FALSE, err |-> "", escaped |-> FALSE,
          resp |-> try.sent]

\* The /api/schedules handler
SchedulesHandler(req, st, t, fault) ==
  Catch(SchedulesTry(req, st, t, fault), "Internal server error", JNull)

\* The try block of the /api/dashboard handler.  Of the dashboard data the
\* KPIs the handler recomputes are kept.
DashboardTry(st, t, fault) ==
  LET schedules == DbGet(st, "kmrl_schedules", fault)
      trains == DbGet(schedules.st, "kmrl_trains", fault)
      conflicts == DbGet(trains.st, "kmrl_conflicts", fault)
      updatedKPIs == [totalTrains |-> Len(trains.v.a),
                      conflictsDetected |-> Len(conflicts.v.a),
                      lastUpdated |-> t]
      update == DbUpdateKPIs(conflicts.st, updatedKPIs, fault)
  IN IF schedules.threw THEN Threw(schedules)
     ELSE IF ~IsArray(schedules.v)
       THEN Threw(Throw(trains.st, "schedules.filter is not a function"))
     ELSE IF ~IsArray(trains.v)
       THEN Threw(Throw(trains.st, "trains.filter is not a function"))
     ELSE IF ~IsArray(conflicts.v)
       THEN Threw(Throw(trains.st, "conflicts.filter is not a function"))
     ELSE IF update.threw THEN Threw(update)
     ELSE Sent(update.st, EnvelopeMeta(200, TRUE,
            "Dashboard data retrieved successfully", Obj(updatedKPIs)))

\* The /api/dashboard handler
DashboardHandler(req, st, t, fault) ==
  IF req.method # "GET"
    THEN [st |-> st, threw |-> FALSE, err |-> "", escaped |-> FALSE,
          resp |-> <<Envelope(405, FALSE, "Method ${req.method} not allowed",
                              EmptyObject)>>]
    ELSE Catch(DashboardTry(st, t, fault),
               "Failed to retrieve dashboard data", EmptyObject)

\* schedules.filter(schedule => scheduleIds.includes(schedule.id))
WithIds(schedules, ids) ==
  SelectSeq(schedules, LAMBDA x : \E i \in 1..Len(ids) : ids[i] = x.id)

\* The try block of the /api/ai/conflicts handler
ConflictsTry(req, st, t, fault) ==
  LET schedules == DbGet(st, "kmrl_schedules", fault)
      routes == DbGet(schedules.st, "kmrl_routes", fault)
      ids == req.body.a[1].scheduleIds
      toAnalyze == IF Len(ids) > 0 THEN WithIds(schedules.v.a, ids)
                   ELSE schedules.v.a
      detected == DetectConflicts(toAnalyze, routes.v.a, t)
      stored == DbCreateConflicts(routes.st, detected, t, fault)
  IN IF req.body.t # "object"
       THEN Threw(Throw(st, "Cannot destructure property 'scheduleIds' of 'req.body'"))
     ELSE IF schedules.threw THEN Threw(schedules)
     ELSE IF ~IsArray(schedules.v)
       THEN Threw(Throw(routes.st, "schedules.forEach is not a function"))
     ELSE IF Len(toAnalyze) = 0
       THEN Sent(routes.st, Envelope(400, FALSE,
              "No schedules found for conflict analysis", EmptyObject))
     ELSE IF ~IsArray(routes.v)
       THEN Threw(Throw(routes.st, "routes.find is not a function"))
     ELSE IF stored.threw THEN Threw(stored)
     ELSE Sent(stored.st, EnvelopeMeta(200, TRUE,
            "Analyzed ${n} schedules and found ${m} conflicts", Arr(detected)))

\* The /api/ai/conflicts handler
ConflictsHandler(req, st, t, fault) ==
  IF req.method # "POST"
    THEN [st |-> st, threw |-> FALSE, err |-> "", escaped |-> FALSE,
          resp |-> <<Envelope(405, FALSE, "Method ${req.method} not allowed",
                              EmptyObject)>>]
    ELSE Catch(ConflictsTry(req, st, t, fault),
               "Failed to analyze conflicts. Please try again.", EmptyObject)

\* A mutation of the run recomputes an arrival from a route that is found
\* and has no estimatedDuration
MutationMayThrow(schedules, routes) ==
  \E i \in 1..Len(schedules) :
    /\ Len(FindRoute(routes, schedules[i].routeId)) > 0
    /\ ~HasDuration(FindRoute(routes, schedules[i].routeId)[1])

\* The try block of the /api/ai/optimize handler.  mutationThrows: a
\* mutation of the run hit a route without estimatedDuration.
OptimizeTry(req, st, t, fault, mutationThrows) ==
  LET schedules == DbGet(st, "kmrl_schedules", fault)
      routes == DbGet(schedules.st, "kmrl_routes", fault)
      ids == req.body.a[1].scheduleIds
      toOptimize == WithIds(schedules.v.a, ids)
      initial == InitialIndividual(toOptimize)
  IN IF req.body.t # "object"
       THEN Threw(Throw(st, "Cannot read properties of undefined (reading 'scheduleIds')"))
     ELSE IF Len(ids) = 0
       THEN Sent(st, Envelope(400, FALSE,
              "Schedule IDs are required for optimization", Arr(<< >>)))
     ELSE IF schedules.threw THEN Threw(schedules)
     ELSE IF ~IsArray(schedules.v)
       THEN Threw(Throw(routes.st, "allSchedules.filter is not a function"))
     ELSE IF Len(toOptimize) = 0
       THEN Sent(routes.st, Envelope(404, FALSE,
              "No valid schedules found for optimization", Arr(<< >>)))
     ELSE IF initial.threw
       THEN Threw(Throw(routes.st, "RangeError: Invalid time value"))
     ELSE IF mutationThrows /\ ~IsArray(routes.v)
       THEN Threw(Throw(routes.st, "routes.find is not a function"))
     ELSE IF mutationThrows /\ MutationMayThrow(toOptimize, routes.v.a)
       THEN Threw(Throw(routes.st, "RangeError: Invalid time value"))
     ELSE Sent(routes.st, EnvelopeMeta(200, TRUE,
            "Successfully optimized ${n} schedules",
            Arr(ConvertToOptimizationResults(toOptimize, initial.v, t))))

\* The /api/ai/optimize handler
OptimizeHandler(req, st, t, fault, mutationThrows) ==
  IF req.method # "POST"
    THEN [st |-> st, threw |-> FALSE, err |-> "", escaped |-> FALSE,
          resp |-> <<Envelope(405, FALSE, "Method ${req.method} not allowed",
                              Arr(<< >>))>>]
    ELSE Catch(OptimizeTry(req, st, t, fault, mutationThrows),
               "Failed to optimize schedules. Please try again.", Arr(<< >>))

---------------------------------------------------------------------------
(* The upload components: FileUpload (components/data/FileUpload.tsx) and  *)
(* UploadModal (components/ui/upload-modal.tsx).  A record is known by the *)
(* names of its fields and by which of them hold an empty value; a JSON    *)
(* file may also hold null where a record is expected.  The lists a        *)
(* component builds are known by their lengths.                            *)

Rec(keys, blank) == [kind |-> "object", keys |-> keys, blank |-> blank]
NullRec == [kind |-> "null", keys |-> {}, blank |-> {}]

\* String.toLowerCase on the field names in use
ToLowerCase(k) ==
  CASE k = "trainId" -> "trainid"
    [] k = "routeId" -> "routeid"
    [] k = "departureTime" -> "departuretime"
    [] OTHER -> k

\* key.includes('time') || key.includes('hour') || key.includes('minute'),
\* on the lower-cased field names in use
IsTimeLike(key) ==
  key \in {"time", "departure_time", "arrival_time", "departuretime"}

\* Promise outcomes
Resolve(v) == [ok |-> TRUE, v |-> v, message |-> ""]
Reject(message) == [ok |-> FALSE, v |-> << >>, message |-> message]

\* null, as the value of an error or success message
Null == "null"

\* The record FileUpload's CSV fallback makes of a line of a binary file
GarbageRecord == Rec({"pk"}, {})

\* FileUpload.parseFile
ParseFile(file) ==
  IF ~file.readable THEN Reject("Failed to read ${file.name}")
  ELSE IF file.ext = ".json"
    THEN IF file.content = "json"
           THEN Resolve(file.records)
           ELSE Reject("Failed to parse ${file.name}: ${err.message}")
  ELSE IF file.ext = ".csv"
    THEN IF file.content = "csv" THEN Resolve(file.records) ELSE Resolve(<< >>)
  ELSE IF file.content \in {"json", "csv"} THEN Resolve(file.records)
  ELSE IF file.content = "sheet"
    THEN Resolve([i \in DOMAIN file.records |-> GarbageRecord])
  ELSE Resolve(<< >>)

\* The tests of FileUpload.processFileData on the field names of a record:
\* the categories whose field names the record carries
KeyTests(record) ==
  LET recordKeys == {ToLowerCase(k) : k \in record.keys}
  IN  {c \in {"trains", "routes", "schedules", "stations"} :
         \/ c = "trains" /\ recordKeys \cap {"train", "trainid", "train_id",
                "locomotive", "vehicle", "capacity", "max_capacity", "seats"} # {}
         \/ c = "routes" /\ recordKeys \cap {"route", "routeid", "route_id",
                "line", "path", "origin", "destination", "start", "end"} # {}
         \/ c = "schedules" /\ recordKeys \cap {"schedule", "scheduleid",
                "schedule_id", "departure", "arrival", "time", "departure_time",
                "arrival_time"} # {}
         \/ c = "stations" /\ recordKeys \cap {"station", "stationid",
                "station_id", "stop", "latitude", "longitude", "lat", "lng",
                "coordinates"} # {}}

\* A classification that pushes the record to the list of every category
\* whose test it passes
ClassifyRecordIndependently(record) == KeyTests(record)

\* The body of the loop of FileUpload.processFileData: the lists the record
\* is pushed to (an if / else-if chain, and a last else that infers the kind)
ClassifyRecord(record) ==
  LET recordKeys == {ToLowerCase(k) : k \in record.keys}
      hit == KeyTests(record)
  IN  IF "trains" \in hit THEN {"trains"}
      ELSE IF "routes" \in hit THEN {"routes"}
      ELSE IF "schedules" \in hit THEN {"schedules"}
      ELSE IF "stations" \in hit THEN {"stations"}
      ELSE IF \E key \in recordKeys : IsTimeLike(key) THEN {"schedules"}
      ELSE {"trains"}

\* The lengths of the lists of a processed upload
NoData == [trains |-> 0, routes |-> 0, schedules |-> 0, stations |-> 0,
           rawData |-> 0]

CountIn(data, c, categoriesOf(_)) ==
  Cardinality({i \in DOMAIN data : c \in categoriesOf(data[i])})

\* FileUpload.processFileData: Object.keys(null) throws a TypeError
ProcessFileData(data) ==
  IF \E i \in DOMAIN data : data[i] = NullRec
    THEN Reject("Cannot convert undefined or null to object")
    ELSE Resolve([trains    |-> CountIn(data, "trains", ClassifyRecord),
                  routes    |-> CountIn(data, "routes", ClassifyRecord),
                  schedules |-> CountIn(data, "schedules", ClassifyRecord),
                  stations  |-> CountIn(data, "stations", ClassifyRecord),
                  rawData   |-> Len(data)])

\* The merge of a file's lists into allTrains ... allRawData
Merge(all, processedData) ==
  [c \in DOMAIN all |-> all[c] + processedData[c]]

\* A catch that shows the message, without the finally of processFiles
CatchWithoutFinally(message) ==
  [pc |-> "failed", error |-> message, isProcessing |-> TRUE]

\* The catch and the finally of FileUpload.processFiles
CatchFinally(message) ==
  [pc |-> "failed", error |-> message, isProcessing |-> FALSE]

\* One round of the loop of FileUpload.processFiles: the file's lists, or
\* the rejection that ends the loop
ProcessFile(file) ==
  LET fileData == ParseFile(file)
  IN  IF fileData.ok THEN ProcessFileData(fileData.v) ELSE fileData

\* UploadModal.validateFile: the message it shows, Null when the file passes
ValidateFile(file) ==
  IF file.ext \notin {".json", ".xlsx", ".xls", ".csv"} /\ ~file.validType
    THEN "Please upload a JSON, Excel (.xlsx, .xls), or CSV file"
  ELSE IF file.big THEN "File size must be less than 10MB"
  ELSE Null

\* UploadModal.parseFile
UmParseFile(file) ==
  IF ~file.readable THEN Reject("${err.message}")
  ELSE IF file.ext = ".json"
    THEN IF file.content = "json"
           THEN Resolve(file.records)
           ELSE Reject("${err.message}")
  ELSE IF file.ext = ".csv"
    THEN IF file.content = "csv"
           THEN Resolve(file.records)
           ELSE Reject("CSV parsing error: ${results.errors[0].message}")
  ELSE IF file.content = "sheet" THEN Resolve(file.records)
  ELSE Reject("${err.message}")

\* item.f, as a condition
Has(item, f) == f \in item.keys /\ f \notin item.blank

\* The body of the forEach of UploadModal.processData: the lists the item
\* is pushed to (three ifs, one after another)
UmClassify(item) ==
  {c \in {"trains", "routes", "schedules"} :
     \/ c = "trains" /\ \E f \in {"trainId", "train_id", "trainNumber",
                                   "train_number"} : Has(item, f)
     \/ c = "routes" /\ \E f \in {"routeId", "route_id", "routeName",
                                   "route_name", "stations"} : Has(item, f)
     \/ c = "schedules" /\ \E f \in {"scheduleId", "schedule_id",
                                      "departureTime", "departure_time"} :
                            Has(item, f)}

\* UploadModal.processData, with the rawData handleFileUpload adds: reading
\* a property of null throws a TypeError
ProcessData(rawData) ==
  IF \E i \in DOMAIN rawData : rawData[i] = NullRec
    THEN Reject("${err.message}")
    ELSE Resolve([trains    |-> CountIn(rawData, "trains", UmClassify),
                  routes    |-> CountIn(rawData, "routes", UmClassify),
                  schedules |-> CountIn(rawData, "schedules", UmClassify),
                  stations  |-> 0,
                  rawData   |-> Len(rawData)])

\* The page has been handed nothing yet
NothingUploaded == [by |-> "none", data |-> NoData]

---------------------------------------------------------------------------
(* The components that run timers: LoadingScreen                           *)
(* (components/ui/loading-screen.tsx), RealSchedulingEngine and RealMap.   *)
(* The page shows at most one of them at a time.  A timer is known by      *)
(* whether it is armed.  An event of the engine is known by its type; of   *)
(* the engine's metrics the two counters are kept (the others move by      *)
(* random fractions).  The running train of RealMap is known by the index  *)
(* of the station it is at, one tick taking it to the next station.        *)

\* steps[i].duration, the period of LoadingScreen's interval, and the
\* events the engine keeps besides the newest
Steps      == <<1000, 1000, 1000>>
TickMs     == 50
KeptEvents == 19

\* steps.reduce((sum, step) => sum + step.duration, 0)
TotalDuration == Steps[1] + Steps[2] + Steps[3]

\* The loop of LoadingScreen's tick that updates currentStep
StepAt(t, step) ==
  IF t <= Steps[1] THEN 0
  ELSE IF t <= Steps[1] + Steps[2] THEN 1
  ELSE IF t <= TotalDuration THEN 2
  ELSE step

\* A cleanup that leaves the timer as it is
LeaveInterval(timer) == timer

\* clearInterval, in an effect's cleanup and in LoadingScreen's last tick
ClearInterval(timer) == FALSE

\* The initial metrics of the engine, also what resetMetrics sets
InitialMetrics == [conflicts |-> 3, optimizationsApplied |-> 0]

\* The updater the engine's tick hands to setMetrics; m is
\* Math.floor(dataMultiplier)
UpdateMetrics(prev, type, m) ==
  IF type = "optimization"
    THEN [prev EXCEPT !.optimizationsApplied = prev.optimizationsApplied + m]
  ELSE IF type = "conflict"
    THEN [prev EXCEPT !.conflicts = Max2(0, prev.conflicts - 1)]
  ELSE prev

\* The updater the engine's tick hands to setEvents
KeepEvents(newEvent, prev) ==
  <<newEvent>> \o SubSeq(prev, 1, Min2(Len(prev), KeptEvents))

\* The timer callback that ran last
NoCallback == [by |-> "none", kind |-> "none", live |-> TRUE]
Callback(by, kind, live) == [by |-> by, kind |-> kind, live |-> live]

---------------------------------------------------------------------------
(* The email path: emailService (setEmailConfig, sendConflictNotification), *)
(* the fetch of the engine's tick and the proxy's /send-email              *)
(* (server/sendGridProxy.js).                                              *)

InitialConfig == [recipientEmail |-> "", enabled |-> FALSE]

\* Settings.defaultSettings.notifications, the two fields of the email path
DefaultSettings == [emailNotifications |-> FALSE, emailAddress |-> ""]

\* /.+@.+\..+/.test(email), on the addresses in use
IsEmailAddress(email) == email \in {"ops@kmrl.example"}

\* The request of the engine's tick, with the emailConfig at the time
Fetch(event, config) ==
  [event |-> event, to |-> "recipient@example.com", config |-> config,
   state |-> "sent", mailCalls |-> 0, responses |-> << >>,
   upstream |-> "none"]

\* Array.prototype.join(', ') of a list of strings
RECURSIVE Join(_)
Join(list) ==
  IF list = << >> THEN ""
  ELSE IF Len(list) = 1 THEN list[1]
  ELSE list[1] \o ", " \o Join(Tail(list))

\* The affected trains of a message by a plain join, with no fallback
AffectedTrainsJoined(conflictDetails) ==
  IF "affectedTrains" \in DOMAIN conflictDetails
    THEN Join(conflictDetails.affectedTrains)
    ELSE "undefined"

\* conflictDetails.affectedTrains?.join(', ') || 'N/A'
AffectedTrainsText(conflictDetails) ==
  IF "affectedTrains" \in DOMAIN conflictDetails
       /\ Join(conflictDetails.affectedTrains) # ""
    THEN Join(conflictDetails.affectedTrains)
    ELSE "N/A"

\* msg of sendConflictNotification; the text is known by the values its
\* template is filled with
Msg(conflictDetails, config) ==
  [to      |-> config.recipientEmail,
   from    |-> "csbs269031@saranathan.ac.in",
   subject |-> "Scheduling Conflict Alert: " \o conflictDetails.type,
   text    |-> [Type           |-> conflictDetails.type,
                Time           |-> conflictDetails.timestamp,
                Description    |-> conflictDetails.description,
                AffectedTrains |-> AffectedTrainsText(conflictDetails)]]

\* What a call of sendConflictNotification did: the messages handed to
\* sgMail.send, how the send ended, and the value the call resolved to
Notification(conflictDetails, config, sends, outcome, returned) ==
  [called |-> TRUE, details |-> conflictDetails, config |-> config,
   sends |-> sends, outcome |-> outcome, returned |-> returned]

NoDetails == [type |-> "", description |-> "", timestamp |-> ""]

NoNotification ==
  [called |-> FALSE, details |-> NoDetails, config |-> InitialConfig,
   sends |-> << >>, outcome |-> "none", returned |-> "none"]

\* sendConflictNotification from its guard on: try { await sgMail.send(msg);
\* return true } catch { return false }
TrySend(conflictDetails, config, outcome) ==
  Notification(conflictDetails, config, <<Msg(conflictDetails, config)>>, outcome,
               IF outcome = "resolved" THEN "true" ELSE "false")

\* The mail API's answers to the proxy: accepted, refused, and no answer
Upstreams == {"202", "401", "no response"}

\* A proxy that answers 200 whatever the mail API said
ResponseStatusAlwaysOk(upstream) == 200

\* The status of the proxy's response: response.status, or
\* error.response?.status || 500
ResponseStatus(upstream) ==
  CASE upstream = "202" -> 202
    [] upstream = "401" -> 401
    [] OTHER -> 500

---------------------------------------------------------------------------
(* The export hook useExport (hooks/useExport.ts) with exportUtils         *)
(* (lib/exportUtils.ts).  Every component that calls useExport() has a     *)
(* state of its own: QuickExport, ExportModal (in ExportButton) and        *)
(* ExportHistory are three instances of the hook.  An object URL is the    *)
(* index of its blob in blobs; a file content is known by the format, the  *)
(* data type and whether the data was wrapped with metadata.               *)

Instances == {"QuickExport", "ExportModal", "ExportHistory"}

\* The initial exportHistory of an instance, also what clearHistory sets
EmptyHistory == [jobs |-> << >>, totalExports |-> 0, totalSize |-> 0]

\* Array.isArray of getDataByType(dataType): 'all' gives an object
IsArrayData(dataType) == dataType # "all"

\* The data startExport hands to createDownloadBlob: wrapped with metadata
\* when options.includeMetadata, the data is an array and the format is json
Wrapped(options) ==
  options.includeMetadata /\ IsArrayData(options.dataType) /\ options.format = "json"

\* createDownloadBlob: the content of the blob
BlobContent(options) ==
  [format |-> options.format, dataType |-> options.dataType,
   wrapped |-> Wrapped(options)]

NoContent == [format |-> "none", dataType |-> "none", wrapped |-> FALSE]

\* new Blob([JSON.stringify(filteredData)]).size, 2 with metadata and 1 without
FileSize(options) == IF Wrapped(options) THEN 2 ELSE 1

\* generateFilename: kmrl-${dataType}-${date}.${format}
GenerateFilename(dataType, format) == "kmrl-" \o dataType \o "-date." \o format

\* URL.createObjectURL(blob)
CreateObjectURL(bs, content) == Append(bs, [content |-> content, live |-> TRUE])

\* A download that leaves the object URL alive
DownloadFileKeepingUrl(bs, url) ==
  [delivered |-> IF bs[url].live THEN bs[url].content ELSE NoContent,
   blobs |-> bs]

\* downloadFile: the link is clicked, then URL.revokeObjectURL(url); a
\* revoked URL delivers nothing
DownloadFile(bs, url) ==
  [delivered |-> IF bs[url].live THEN bs[url].content ELSE NoContent,
   blobs |-> [bs EXCEPT ![url].live = FALSE]]

\* completedJob and failedJob of startExport (downloadUrl 0: none)
CompletedJob(p, url) ==
  [id |-> p.id, name |-> p.name, format |-> p.options.format,
   dataType |-> p.options.dataType, status |-> "completed",
   downloadUrl |-> url, fileSize |-> FileSize(p.options)]

FailedJob(p) ==
  [id |-> p.id, name |-> p.name, format |-> p.options.format,
   dataType |-> p.options.dataType, status |-> "failed",
   downloadUrl |-> 0, fileSize |-> 0]

\* The updaters startExport hands to setExportHistory
AddCompleted(prev, job) ==
  [jobs |-> <<job>> \o prev.jobs,
   totalExports |-> prev.totalExports + 1,
   totalSize |-> prev.totalSize + job.fileSize]

AddFailed(prev, job) == [prev EXCEPT !.jobs = <<job>> \o prev.jobs]

NoDownload ==
  [called |-> FALSE, by |-> "none", id |-> 0, url |-> 0, content |-> NoContent]

---------------------------------------------------------------------------
(* Initial values *)

DbInit ==
  /\ ls = [k \in Keys |-> Absent]
  /\ isInitialized = FALSE
  /\ now = 1
  /\ rt = [done |-> FALSE, before |-> ReadAll([k \in Keys |-> Absent]),
           after |-> ReadAll([k \in Keys |-> Absent])]

ApiInit ==
  /\ microtasks = << >>
  /\ ccCalls = 0
  /\ ccDone = << >>
  /\ resp = << >>
  /\ escaped = FALSE
  /\ lastReq = [route |-> "none", method |-> "none", threw |-> FALSE, err |-> ""]

CdInit ==
  /\ cdSchedules = << >>
  /\ cdConflicts = << >>
  /\ cdDone = FALSE

GaInit ==
  /\ gaPc = "idle"
  /\ gaSchedules = << >>
  /\ gaRoutes = << >>
  /\ generation = 0
  /\ population = << >>
  /\ newPopulation = << >>
  /\ bestSolution = << >>
  /\ gaResults = << >>

UpInit ==
  /\ fuPc = "idle"
  /\ fuFilesLeft = 0
  /\ fuParsed = 0
  /\ fuAll = NoData
  /\ isProcessing = FALSE
  /\ fuError = Null
  /\ fuInvoked = FALSE
  /\ umPc = "idle"
  /\ umFile = "none"
  /\ isUploading = FALSE
  /\ umError = Null
  /\ umSuccess = Null
  /\ umCloseTimer = FALSE
  /\ umInvoked = FALSE
  /\ uploadedData = NothingUploaded

TmInit ==
  /\ pageMounted = TRUE
  /\ isInitialLoading = TRUE
  /\ mounted = "LoadingScreen"
  /\ lsTimer = TRUE
  /\ totalTime = 0
  /\ currentStep = 0
  /\ lsTimeout = FALSE
  /\ isActive = FALSE
  /\ engTimer = FALSE
  /\ events = << >>
  /\ metrics = InitialMetrics
  /\ isAIActive = TRUE
  /\ mapTimer = FALSE
  /\ liveTrains = 0
  /\ lastCallback = NoCallback

EmInit ==
  /\ emailConfig = InitialConfig
  /\ lastConfigSet = InitialConfig
  /\ settings = DefaultSettings
  /\ requests = << >>
  /\ conflictEvents = 0
  /\ sgSends = {}
  /\ lastNotification = NoNotification

ExInit ==
  /\ exTab = "quick"
  /\ exportHistory = [i \in Instances |-> EmptyHistory]
  /\ isExporting = [i \in Instances |-> FALSE]
  /\ exClearTimer = [i \in Instances |-> FALSE]
  /\ exPending = {}
  /\ exCount = 0
  /\ blobs = << >>
  /\ lastDownload = NoDownload
  /\ exFinished = << >>

---------------------------------------------------------------------------
(* Application settings and browser storage (pages/Settings.tsx,           *)
(* context/LanguageContext.tsx)                                            *)
(*                                                                         *)
(* localStorage is one store: ls holds the keys of DatabaseManager,        *)
(* appStorage the keys the pages name.  defaultSettings is a module-level  *)
(* object, so its nested objects live as long as the page does; a settings *)
(* object refers to each nested section either by the object of            *)
(* defaultSettings (shared) or by an object of its own.                    *)

AppKeys == {"kmrl-app-settings", "kmrl-language", "kmrl-uploaded-data",
            "kmrl-ai-predictions", "kmrl-schedules", "kmrl-user-preferences"}

\* The keys the application writes
UsedKeys == Keys \cup {"kmrl-app-settings", "kmrl-language"}

Sections == {"notifications", "display"}

\* const defaultSettings = {...} as the module is evaluated
DefaultSettingsLiteral ==
  [theme |-> "system", language |-> "en",
   notifications |-> [trainAlerts |-> TRUE],
   display |-> [compactMode |-> FALSE]]

\* No Settings component is mounted
NoSettings == [theme |-> "", language |-> "", shared |-> {},
               own |-> [s \in Sections |-> DefaultSettingsLiteral[s]]]

\* A settings object that is, or shares every section with, defaultSettings
SharingDefaults(d) ==
  [theme |-> d.theme, language |-> d.language, shared |-> Sections,
   own |-> [s \in Sections |-> DefaultSettingsLiteral[s]]]

\* The values a settings object holds, read through its references
SettingsValue(st, d) ==
  [theme |-> st.theme, language |-> st.language,
   notifications |-> IF "notifications" \in st.shared THEN d.notifications
                     ELSE st.own.notifications,
   display |-> IF "display" \in st.shared THEN d.display ELSE st.own.display]

\* JSON.stringify(settings) and JSON.parse of it
StringifySettings(v) == [fmt |-> "compact", v |-> v]

\* { ...defaultSettings, ...parsed }: every property of parsed replaces the
\* one of defaultSettings
MergeParsed(d, parsed) ==
  [theme |-> parsed.theme, language |-> parsed.language, shared |-> {},
   own |-> [s \in Sections |-> parsed[s]]]

\* useState(defaultSettings) and the effect that loads the saved settings
LoadSettings(store, d) ==
  IF store["kmrl-app-settings"].present
    THEN MergeParsed(d, Parse(store["kmrl-app-settings"].text))
    ELSE SharingDefaults(d)

\* keysToRemove.forEach(key => localStorage.removeItem(key))
RemoveItems(l, keysToRemove) ==
  [k \in DOMAIN l |-> IF k \in keysToRemove THEN Absent ELSE l[k]]

KeysToRemove == {"kmrl-app-settings", "kmrl-uploaded-data", "kmrl-ai-predictions",
                 "kmrl-schedules", "kmrl-user-preferences"}

\* useState(() => localStorage.getItem('kmrl-language') || 'en')
StoredLanguage(store) ==
  IF store["kmrl-language"].present THEN store["kmrl-language"].text ELSE "en"

\* The paths updateSetting is called with, and the values
SettingPaths == {<<"theme">>, <<"language">>, <<"notifications", "trainAlerts">>,
                 <<"display", "compactMode">>}
SettingValues(path) ==
  IF path = <<"theme">> THEN {"system", "dark"}
  ELSE IF path = <<"language">> THEN {"en", "ml"}
  ELSE BOOLEAN

\* updateSetting: newSettings = { ...settings } copies the top level only;
\* the walk along the path reaches the nested object itself
UpdatedSettings(st, path, value) ==
  IF Len(path) = 1 THEN [st EXCEPT ![path[1]] = value]
  ELSE IF path[1] \in st.shared THEN st
  ELSE [st EXCEPT !.own[path[1]][path[2]] = value]

UpdatedDefaults(st, d, path, value) ==
  IF Len(path) = 2 /\ path[1] \in st.shared
    THEN [d EXCEPT ![path[1]][path[2]] = value]
    ELSE d

PsInit ==
  /\ appStorage = [k \in AppKeys |-> Absent]
  /\ defaultSettings = DefaultSettingsLiteral
  /\ appSettings = NoSettings
  /\ psMounted = FALSE
  /\ uiLanguage = "en"
  /\ reloadTimer = FALSE
  /\ prefsOp = "none"

---------------------------------------------------------------------------
(* ResourceAllocator (lib/resourceAllocator.ts): the train assignments.    *)
(* Scores are kept in units of 1/Unit, so that the fractions the cost      *)
(* matrix computes from the model's trains and schedules are integers.     *)

Unit == 6000

\* calculateTrainEfficiencyScore: 0.7 + min(0.2, capacity / 1500) + bonus
CalculateTrainEfficiencyScore(train) ==
  (7 * Unit) \div 10 + Min2((2 * Unit) \div 10, (train.capacity * Unit) \div 1500)
    + (IF train.type = "metro" THEN Unit \div 10 ELSE 0)

\* calculateRouteCompatibility
CalculateRouteCompatibility(train) ==
  IF train.type = "metro" THEN Unit ELSE Min2(Unit, (train.maxSpeed * Unit) \div 80)

\* calculateMaintenanceScore: max(0, 1 - 48 / MIN_MAINTENANCE_INTERVAL)
CalculateMaintenanceScore ==
  IF Unit - (48 * Unit) \div 72 > 0 THEN Unit - (48 * Unit) \div 72 ELSE 0

\* calculateContinuityScore: the schedules of the train within a day of the
\* schedule's departure (every time of the model lies within one day)
CalculateContinuityScore(train, schedule, allSchedules) ==
  LET recentSchedules == SelectSeq(allSchedules, LAMBDA s : s.trainId = train.id)
      sameRoute == SelectSeq(recentSchedules, LAMBDA s : s.routeId = schedule.routeId)
  IN IF Len(recentSchedules) = 0 THEN Unit \div 2
     ELSE Min2(Unit, (Len(sameRoute) * Unit) \div Len(recentSchedules))

\* The routes handed to the allocator
AllocRoutes == {Id("route-00", 1), Id("route-00", 2)}

\* One entry of createAssignmentCostMatrix
AssignmentScore(schedule, train, allSchedules) ==
  LET expectedLoad == IF schedule.passengerCount # 0
                        THEN schedule.passengerCount * Unit
                        ELSE (train.capacity * 7 * Unit) \div 10
      capacityScore == Min2(Unit, expectedLoad \div train.capacity) * 30
      efficiencyScore == CalculateTrainEfficiencyScore(train) * 25
      routeScore == IF schedule.routeId \in AllocRoutes
                      THEN CalculateRouteCompatibility(train) * 20 ELSE 0
      maintenanceScore == CalculateMaintenanceScore * 15
      continuityScore == CalculateContinuityScore(train, schedule, allSchedules) * 10
  IN capacityScore + efficiencyScore + routeScore + maintenanceScore + continuityScore

\* isTrainAvailable
IsTrainAvailable(train, schedule, allSchedules) ==
  /\ train.status = "active"
  /\ ~\E i \in 1..Len(allSchedules) :
        /\ allSchedules[i].trainId = train.id
        /\ allSchedules[i].id # schedule.id
        /\ schedule.dep - 10 < allSchedules[i].arr
        /\ allSchedules[i].dep - 10 < schedule.arr

\* score >= bestScore: the last train is kept on equal scores
BetterOrEqualScore(score, bestScore) == score >= bestScore

\* score > bestScore: the first train is kept on equal scores
BetterScore(score, bestScore) == score > bestScore

\* availableTrains.forEach(...) for one schedule: the index of bestTrain
\* after the trains from j on; best is 0 while bestTrain is null and
\* bestScore is -Infinity
RECURSIVE BestTrainFrom(_, _, _, _, _)
BestTrainFrom(j, best, schedule, availableTrains, allSchedules) ==
  IF j > Len(availableTrains) THEN best
  ELSE IF /\ IsTrainAvailable(availableTrains[j], schedule, allSchedules)
          /\ \/ best = 0
             \/ BetterScore(AssignmentScore(schedule, availableTrains[j], allSchedules),
                            AssignmentScore(schedule, availableTrains[best], allSchedules))
    THEN BestTrainFrom(j + 1, j, schedule, availableTrains, allSchedules)
    ELSE BestTrainFrom(j + 1, best, schedule, availableTrains, allSchedules)

\* trains.filter(t => t.status === 'active')
AvailableTrains(trains) == SelectSeq(trains, LAMBDA t : t.status = "active")

\* generateOptimalAssignments.  Of an assignment the train, the schedule
\* and the score are kept.
GenerateOptimalAssignments(schedules, trains) ==
  LET availableTrains == AvailableTrains(trains)
      best(i) == BestTrainFrom(1, 0, schedules[i], availableTrains, schedules)
  IN Concat([i \in 1..Len(schedules) |->
       IF best(i) = 0 THEN << >>
       ELSE << [trainId |-> availableTrains[best(i)].id,
                scheduleId |-> schedules[i].id,
                assignmentScore |-> AssignmentScore(schedules[i],
                                      availableTrains[best(i)], schedules)] >>])

RaInit ==
  /\ raTrains = << >>
  /\ raSchedules = << >>
  /\ raAssignments = << >>
  /\ raDone = FALSE

Init ==
  RaInit /\ DbInit /\ ApiInit /\ CdInit /\ GaInit /\ UpInit /\ TmInit /\ EmInit /\ ExInit
  /\ PsInit

---------------------------------------------------------------------------
(* The store on its own: creates, imports, clears, export/import           *)

\* rt observes the most recent export/import round trip only: any other
\* operation on the store clears it
RtNone == [done |-> FALSE, before |-> ReadAll([k \in Keys |-> Absent]),
           after |-> ReadAll([k \in Keys |-> Absent])]

\* Time passes
Tick ==
  /\ now < MaxNow
  /\ now' = now + 1
  /\ UNCHANGED <<ls, isInitialized, rt>>
  /\ UNCHANGED exceptDb

\* Trains a caller may hand to createTrain; a capacity that did not parse is NaN
NewTrains == { [status |-> "active", capacity |-> c] : c \in {300, NaNNum} }

\* DatabaseManager.createTrain(train)
DbCreateTrain(train) ==
  LET i == Initialize(ls, isInitialized)
      trains == ReadKey(i.ls, "kmrl_trains")
      newTrain == [id |-> Id("train-", now), status |-> train.status,
                   capacity |-> train.capacity]
  IN /\ trains.t = "array"
     /\ Len(trains.a) < MaxRecs
     /\ ls' = SetItem(i.ls, "kmrl_trains", Arr(Append(trains.a, newTrain)))
     /\ isInitialized' = TRUE
     /\ rt' = RtNone
     /\ UNCHANGED now
     /\ UNCHANGED exceptDb

\* DatabaseManager.deleteTrain(id)
DbDeleteTrain(id) ==
  LET i == Initialize(ls, isInitialized)
      trains == ReadKey(i.ls, "kmrl_trains")
      filtered == SelectSeq(trains.a, LAMBDA t : t.id # id)
  IN /\ trains.t = "array"
     /\ ls' = IF Len(filtered) = Len(trains.a) THEN i.ls
              ELSE SetItem(i.ls, "kmrl_trains", Arr(filtered))
     /\ isInitialized' = TRUE
     /\ rt' = RtNone
     /\ UNCHANGED now
     /\ UNCHANGED exceptDb

\* DatabaseManager.clearAllData
DbClearAllData ==
  /\ ls' = ClearAllDataLs(ls)
  /\ isInitialized' = FALSE
  /\ rt' = RtNone
  /\ UNCHANGED now
  /\ UNCHANGED exceptDb

\* Documents a user may import: only schedules; empty and null collections;
\* a full backup
ImportDocs ==
  { Stringify(Obj([schedules |-> Arr(<<SampleSchedules[2]>>)])),
    Stringify(Obj([trains |-> Arr(<< >>), routes |-> JNull,
                   datasets |-> Arr(<< >>)])),
    Stringify(Obj([trains |-> Arr(<<SampleTrains[1]>>),
                   routes |-> Arr(<<SampleRoutes[1]>>),
                   schedules |-> Arr(<<SampleSchedules[1]>>),
                   conflicts |-> Arr(<< >>),
                   kpis |-> Obj([totalTrains |-> 1, conflictsDetected |-> 0,
                                 lastUpdated |-> 0]),
                   datasets |-> Arr(<< >>)])) }

\* DatabaseManager.importData(doc) with a document from outside
DbImport(doc) ==
  /\ ls' = ImportData(ls, doc)
  /\ rt' = RtNone
  /\ UNCHANGED <<isInitialized, now>>
  /\ UNCHANGED exceptDb

\* exportData() followed by importData(of the exported string); the six
\* getters are called before and after, and what they return is recorded
DbExportImport ==
  LET i == Initialize(ls, isInitialized)
      before == ReadAll(i.ls)
      exported == ExportData(i.ls, now)
      l2 == ImportData(i.ls, exported)
  IN /\ ls' = l2
     /\ isInitialized' = TRUE
     /\ rt' = [done |-> TRUE, before |-> before, after |-> ReadAll(l2)]
     /\ UNCHANGED now
     /\ UNCHANGED exceptDb

NextStore ==
  \/ \E train \in NewTrains : DbCreateTrain(train)
  \/ \E n \in 1..MaxNow : DbDeleteTrain(Id("train-", n))
  \/ DbDeleteTrain(Id("train-00", 1))
  \/ DbClearAllData
  \/ \E doc \in ImportDocs : DbImport(doc)
  \/ DbExportImport

SpecStore == Init /\ [][NextStore]_vars

---------------------------------------------------------------------------
(* The API routes over the store: requests arrive one at a time (each      *)
(* handler awaits only operations that complete at once), and the user may *)
(* import a document.                                                      *)

Body(trainId, routeId, dep, arr, status, scheduleIds) ==
  Obj([trainId |-> trainId, routeId |-> routeId, dep |-> dep, arr |-> arr,
       status |-> status, scheduleIds |-> scheduleIds])

Request(method, id, trainId, page, body) ==
  [method |-> method, id |-> id, trainId |-> trainId, page |-> page, body |-> body]

\* Request bodies: none; one without arrivalTime; departure not before
\* arrival; a departure that is no date; a well-formed one; a status update
ScheduleBodies ==
  { Undef,
    Body(Id("train-00", 1), Id("route-00", 1), 420, NoTime, "scheduled", << >>),
    Body(Id("train-00", 1), Id("route-00", 1), 420, 420, "scheduled", << >>),
    Body(Id("train-00", 1), Id("route-00", 1), InvalidDate, 465, "scheduled", << >>),
    Body(Id("train-00", 1), Id("route-00", 1), 420, 465, "scheduled", << >>) }

StatusUpdate == Body(NoId, NoId, NoTime, NoTime, "completed", << >>)

\* A PUT body that names a departure time only
DepartureUpdate == Body(NoId, NoId, 420, NoTime, "", << >>)

\* Schedule ids a client may name: a sample one, an unknown one, and the
\* one created at the first clock value
ClientScheduleIds ==
  {Id("schedule-00", 1), Id("schedule-00", 7), Id("schedule-", 1)}

SchedulesRequests ==
  { Request("GET", NoId, NoId, 1, Undef),
    Request("GET", NoId, Id("train-00", 1), 2, Undef) } \cup
  { Request("POST", NoId, NoId, 1, body) : body \in ScheduleBodies } \cup
  { Request("PUT", id, NoId, 1, StatusUpdate) :
      id \in {NoId, Id("schedule-00", 2), Id("schedule-00", 7)} } \cup
  { Request("PUT", Id("schedule-00", 2), NoId, 1, DepartureUpdate) } \cup
  { Request("DELETE", id, NoId, 1, Undef) :
      id \in {NoId, Id("schedule-00", 2), Id("schedule-00", 7)} } \cup
  { Request("PATCH", NoId, NoId, 1, Undef) }

DashboardRequests ==
  { Request(method, NoId, NoId, 1, Undef) : method \in {"GET", "POST"} }

AiBodies ==
  { Undef, Body(NoId, NoId, NoTime, NoTime, "", << >>) } \cup
  { Body(NoId, NoId, NoTime, NoTime, "", <<id>>) : id \in ClientScheduleIds }

AiRequests ==
  { Request("GET", NoId, NoId, 1, Undef) } \cup
  { Request("POST", NoId, NoId, 1, body) : body \in AiBodies }

\* The length of a stored collection (0 when it is no array)
StoredLen(l, k) == IF IsArray(ReadKey(l, k)) THEN Len(ReadKey(l, k).a) ELSE 0

\* The handler's effects become the state
ApiEffects(route, req, h) ==
  /\ StoredLen(h.st.ls, "kmrl_schedules") <= MaxRecs
  /\ StoredLen(h.st.ls, "kmrl_conflicts") <= MaxRecs
  /\ ls' = h.st.ls
  /\ isInitialized' = h.st.init
  /\ resp' = h.resp
  /\ escaped' = h.escaped
  /\ lastReq' = [route |-> route, method |-> req.method,
                 threw |-> h.threw, err |-> h.err]
  /\ UNCHANGED <<now, rt>>
  /\ UNCHANGED <<ccVars, cdVars, gaVars, uiVars>>

ApiSchedules(req, fault) ==
  \E h \in {SchedulesHandler(req, [ls |-> ls, init |-> isInitialized], now, fault)} :
    ApiEffects("/api/schedules", req, h)

ApiDashboard(req, fault) ==
  \E h \in {DashboardHandler(req, [ls |-> ls, init |-> isInitialized], now, fault)} :
    ApiEffects("/api/dashboard", req, h)

ApiConflicts(req, fault) ==
  \E h \in {ConflictsHandler(req, [ls |-> ls, init |-> isInitialized], now, fault)} :
    ApiEffects("/api/ai/conflicts", req, h)

\* Whether a mutation of the optimizer's run hits a route without
\* estimatedDuration is decided by its random draws: both may happen when
\* the stored routes allow it
MutationThrowChoices ==
  IF /\ IsArray(ReadKey(ls, "kmrl_routes"))
     /\ AllDurationsKnown(ReadKey(ls, "kmrl_routes").a)
    THEN {FALSE} ELSE BOOLEAN

ApiOptimize(req, fault, mutationThrows) ==
  \E h \in {OptimizeHandler(req, [ls |-> ls, init |-> isInitialized], now, fault,
                            mutationThrows)} :
    ApiEffects("/api/ai/optimize", req, h)

\* A document whose schedules are no list: importData stores them as they are
BrokenDocs ==
  { Stringify(Obj([schedules |-> Obj([note |-> "no list"])])) }

NextApi ==
  \/ \E req \in SchedulesRequests, fault \in Faults : ApiSchedules(req, fault)
  \/ \E req \in DashboardRequests, fault \in Faults : ApiDashboard(req, fault)
  \/ \E req \in AiRequests, fault \in Faults : ApiConflicts(req, fault)
  \/ \E req \in AiRequests, fault \in Faults, mutationThrows \in MutationThrowChoices :
       ApiOptimize(req, fault, mutationThrows)
  \/ \E doc \in BrokenDocs : DbImport(doc)

SpecApi == Init /\ [][NextApi]_vars

---------------------------------------------------------------------------
(* The conflict detector on its own: a caller builds a list of schedules   *)
(* and runs detectConflicts on it.                                         *)

MaxSchedules == 2    \* detectConflicts is handed at most MaxSchedules schedules

\* The routes handed to the detector: the two sample routes over the same
\* stations and a branch that shares no station with them
CdRoutes ==
  SampleRoutes \o
  << [id |-> Id("route-00", 3), startStation |-> "Kakkanad",
      endStation |-> "Infopark", estimatedDuration |-> 45,
      stations |-> {"Kakkanad", "Infopark"}] >>

\* Route ids a schedule may name; route-009 is not among the routes
CdRouteIds == {Id("route-00", 1), Id("route-00", 2), Id("route-00", 3),
               Id("route-00", 9)}
CdTrainIds == {Id("train-00", 1), Id("train-00", 2)}
\* Departures: 06:00, 06:49, 06:50, 07:00; every run takes the 45 minutes
\* of the sample routes
CdDepartures == {360, 409, 410, 420}

\* The caller appends a schedule to the list
CdAddSchedule(trainId, routeId, dep) ==
  /\ Len(cdSchedules) < MaxSchedules
  /\ cdSchedules' = Append(cdSchedules,
       [id |-> Id("schedule-", Len(cdSchedules) + 1), trainId |-> trainId,
        routeId |-> routeId, dep |-> dep, arr |-> dep + SampleRoutes[1].estimatedDuration,
        status |-> "scheduled", delayMinutes |-> 0, passengerCount |-> 240])
  /\ cdConflicts' = << >>
  /\ cdDone' = FALSE
  /\ UNCHANGED exceptCd

\* conflictDetector.detectConflicts(schedules, trains, routes)
CdDetect ==
  /\ ~cdDone
  /\ cdConflicts' = DetectConflicts(cdSchedules, CdRoutes, now)
  /\ cdDone' = TRUE
  /\ UNCHANGED cdSchedules
  /\ UNCHANGED exceptCd

\* The caller starts over with an empty list
CdClear ==
  /\ cdDone
  /\ cdSchedules' = << >>
  /\ cdConflicts' = << >>
  /\ cdDone' = FALSE
  /\ UNCHANGED exceptCd

NextConflict ==
  \/ \E trainId \in CdTrainIds, routeId \in CdRouteIds, dep \in CdDepartures :
       CdAddSchedule(trainId, routeId, dep)
  \/ CdDetect
  \/ CdClear

SpecConflict == Init /\ [][NextConflict]_vars

---------------------------------------------------------------------------
(* The optimizer on its own: optimizeSchedules step by step.  One step per *)
(* pass of the evolution loop's head, per offspring, and per return.       *)

MaxGaLen == 2    \* optimizeSchedules is handed 1..MaxGaLen schedules

\* The i-th schedule a caller hands over: the odd ones run on route-001,
\* the even ones on route-009, which is not among the routes
GaScheduleKind(i) ==
  IF i % 2 = 1
    THEN [trainId |-> Id("train-00", 1), routeId |-> Id("route-00", 1),
          dep |-> 360, arr |-> 405]
    ELSE [trainId |-> Id("train-00", 2), routeId |-> Id("route-00", 9),
          dep |-> 375, arr |-> 420]

\* The lists handed over: n schedules, and the same n schedules with a
\* departure time of the last one that is no date
GaScheduleLists ==
  { [i \in 1..n |-> GaScheduleKind(i)] : n \in 1..MaxGaLen } \cup
  { [i \in 1..n |-> IF i = n THEN [GaScheduleKind(i) EXCEPT !.dep = InvalidDate]
                    ELSE GaScheduleKind(i)] : n \in 1..MaxGaLen }

\* The sample routes, and the same routes as an upload stores them: with
\* estimatedTime and no estimatedDuration
UploadedRoutes ==
  [i \in 1..Len(SampleRoutes) |->
     [SampleRoutes[i] EXCEPT !.estimatedDuration = NaNNum]]
GaRouteLists == {SampleRoutes, UploadedRoutes}

\* The while tests of optimizeSchedules
EvolutionContinuesInclusive(g) == g <= maxGenerations
EvolutionContinues(g) == g < maxGenerations
OffspringLoopContinues(newPop) == Len(newPop) < populationSize

\* The index lists the fitness ranking may put first: slice(0, eliteCount)
EliteChoices(len) ==
  { [i \in 1..Min2(eliteCount, len) |-> i],
    [i \in 1..Min2(eliteCount, len) |-> len + 1 - i] }

\* optimizeSchedules up to the evolution loop: initializePopulation
GaOptimizeSchedules(kinds, routes) ==
  LET schedules == [i \in 1..Len(kinds) |->
         [id |-> Id("schedule-00", i), trainId |-> kinds[i].trainId,
          routeId |-> kinds[i].routeId, dep |-> kinds[i].dep,
          arr |-> kinds[i].arr, status |-> "scheduled", delayMinutes |-> 0,
          passengerCount |-> 240]]
      initial == InitializePopulation(schedules)
  IN /\ gaPc = "idle"
     /\ gaSchedules' = schedules
     /\ gaRoutes' = routes
     /\ generation' = 0
     /\ newPopulation' = << >>
     /\ gaResults' = << >>
     /\ IF initial.threw
          THEN /\ gaPc' = "threw"
               /\ population' = << >>
               /\ bestSolution' = << >>
          ELSE /\ gaPc' = "loop"
               /\ population' = initial.v
               /\ bestSolution' = initial.v[1]
     /\ UNCHANGED exceptGa

\* The head of a generation: fitness, best solution, elitism
GaBeginGeneration(best, elite) ==
  /\ gaPc = "loop"
  /\ EvolutionContinues(generation)
  /\ bestSolution' = IF best = 0 THEN bestSolution ELSE population[best]
  /\ newPopulation' = [i \in 1..Len(elite) |-> population[elite[i]]]
  /\ gaPc' = "offspring"
  /\ UNCHANGED <<gaSchedules, gaRoutes, generation, population, gaResults>>
  /\ UNCHANGED exceptGa

\* One pass of the offspring loop.  cp < 0 stands for no crossover, m = 0
\* for no mutation.
GaOffspring(p1, p2, cp, m) ==
  LET parent1 == population[p1]
      parent2 == population[p2]
      crossed == IF cp < 0 THEN parent1 ELSE Crossover(parent1, parent2, cp)
      mutated == IF m = 0 THEN Returned(crossed) ELSE Mutate(crossed, m, gaRoutes)
  IN /\ gaPc = "offspring"
     /\ OffspringLoopContinues(newPopulation)
     /\ m <= Len(crossed)
     /\ IF mutated.threw
          THEN /\ gaPc' = "threw"
               /\ UNCHANGED newPopulation
          ELSE /\ gaPc' = "offspring"
               /\ newPopulation' = Append(newPopulation, mutated.v)
     /\ UNCHANGED <<gaSchedules, gaRoutes, generation, population,
                    bestSolution, gaResults>>
     /\ UNCHANGED exceptGa

\* population.splice(0, population.length, ...newPopulation); generation++
GaEndGeneration ==
  /\ gaPc = "offspring"
  /\ ~OffspringLoopContinues(newPopulation)
  /\ population' = newPopulation
  /\ newPopulation' = << >>
  /\ generation' = generation + 1
  /\ gaPc' = "loop"
  /\ UNCHANGED <<gaSchedules, gaRoutes, bestSolution, gaResults>>
  /\ UNCHANGED exceptGa

\* return this.convertToOptimizationResults(schedules, bestSolution, request)
GaReturn ==
  /\ gaPc = "loop"
  /\ ~EvolutionContinues(generation)
  /\ gaResults' = ConvertToOptimizationResults(gaSchedules, bestSolution, now)
  /\ gaPc' = "done"
  /\ UNCHANGED <<gaSchedules, gaRoutes, generation, population,
                 newPopulation, bestSolution>>
  /\ UNCHANGED exceptGa

NextOptimizer ==
  \/ \E kinds \in GaScheduleLists, routes \in GaRouteLists :
       GaOptimizeSchedules(kinds, routes)
  \/ \E best \in {0} \cup RandomIndices(Len(population)),
        elite \in EliteChoices(Len(population)) :
       GaBeginGeneration(best, elite)
  \/ \E p1 \in RandomIndices(Len(population)),
        p2 \in RandomIndices(Len(population)),
        cp \in {0 - 1, 0, Len(gaSchedules) - 1},
        m \in {0, 1, Len(gaSchedules)} :
       GaOffspring(p1, p2, cp, m)
  \/ GaEndGeneration
  \/ GaReturn

SpecOptimizer == Init /\ [][NextOptimizer]_vars

---------------------------------------------------------------------------
(* The upload specification: uploads through FileUpload and UploadModal.   *)
(* One upload is under way at a time, and FileUpload is used while the     *)
(* dialog of UploadModal, which covers the page, is closed.  The content   *)
(* of a file is drawn when the component reads it.  The error messages of  *)
(* UploadModal that are texts of thrown errors are one text.               *)

MaxFiles         == 2   \* an upload through FileUpload has 1..MaxFiles files
MaxUploadRecords == 2   \* an upload holds at most MaxUploadRecords records

\* The records a file may hold: one for every branch of the classifiers,
\* the objects first
UploadRecords ==
  << Rec({"train_id", "route_id", "departure_time"}, {}),
     Rec({"routeId", "destination"}, {}),
     Rec({"departure_time"}, {}),
     Rec({"station", "lat"}, {}),
     Rec({"departureTime"}, {}),
     Rec({"name"}, {}),
     Rec({"trainId"}, {"trainId"}),
     NullRec >>

UploadObjects == Len(UploadRecords) - 1

RECURSIVE IndexLists(_, _, _)
\* The non-decreasing lists of at most n of the numbers lo..k
IndexLists(lo, k, n) ==
  IF n <= 0 THEN { << >> }
  ELSE { << >> } \cup
       UNION {{<<i>> \o l : l \in IndexLists(i, k, n - 1)} : i \in lo..k}

\* The lists of at most n of the first k upload records, up to the order of
\* their elements (how a record is classified does not depend on its place)
ListsOf(k, n) ==
  {[j \in DOMAIN l |-> UploadRecords[l[j]]] : l \in IndexLists(1, k, n)}

File(ext, content, records) ==
  [ext |-> ext, readable |-> TRUE, content |-> content, records |-> records]

\* The files with at most n records: JSON, CSV and spreadsheet files that
\* hold what their names say, text files that hold one JSON or CSV record,
\* files that hold something else, and a file that cannot be read
Files(n) ==
  {File(".json", "json", l) : l \in ListsOf(Len(UploadRecords), n)}
  \cup {File(".csv", "csv", l) : l \in ListsOf(UploadObjects, n)}
  \cup {File(".xlsx", "sheet", l) : l \in ListsOf(UploadObjects, n)}
  \cup {File(".txt", content, l) : content \in {"json", "csv"},
                                   l \in ListsOf(1, Min2(n, 1))}
  \cup {File(ext, "malformed", << >>) : ext \in {".json", ".csv", ".xlsx", ".txt"}}
  \cup {[File(".json", "json", << >>) EXCEPT !.readable = FALSE]}

\* What FileUpload makes of the files: parseFile, then processFileData
FuProcessed ==
  {[size |-> Len(file.records), processedData |-> ProcessFile(file)] :
     file \in Files(MaxUploadRecords)}

\* What UploadModal makes of the files: parseFile, then processData
UmProcessed ==
  {[ext |-> file.ext,
    processedData |-> LET rawData == UmParseFile(file)
                      IN  IF rawData.ok THEN ProcessData(rawData.v) ELSE rawData] :
     file \in Files(MaxUploadRecords)}

\* What UploadModal.validateFile looks at
PickedFiles ==
  {[ext |-> ext, validType |-> ext # ".txt", big |-> big] :
     ext \in {".json", ".csv", ".xlsx", ".txt"}, big \in BOOLEAN}

\* FileUpload.processFiles, up to its first await
FuProcessFiles(n) ==
  /\ fuPc # "running"
  /\ umPc = "idle"
  /\ fuPc' = "running"
  /\ fuFilesLeft' = n
  /\ fuParsed' = 0
  /\ fuAll' = NoData
  /\ isProcessing' = TRUE
  /\ fuError' = Null
  /\ fuInvoked' = FALSE
  /\ UNCHANGED <<umVars, uploadedData>>
  /\ UNCHANGED exceptUp

\* The loop of FileUpload.processFiles on the next file
FuNextFile ==
  /\ fuPc = "running"
  /\ fuFilesLeft > 0
  /\ \E file \in {f \in FuProcessed : f.size <= MaxUploadRecords - fuAll.rawData} :
     \E processedData \in {file.processedData} :
       IF processedData.ok
         THEN /\ fuAll' = Merge(fuAll, processedData.v)
              /\ fuFilesLeft' = fuFilesLeft - 1
              /\ fuParsed' = fuParsed + 1
              /\ UNCHANGED <<fuPc, isProcessing, fuError>>
         ELSE \E c \in {CatchFinally(processedData.message)} :
                /\ fuPc' = c.pc
                /\ fuError' = c.error
                /\ isProcessing' = c.isProcessing
                /\ fuAll' = NoData
                /\ fuFilesLeft' = 0
                /\ UNCHANGED fuParsed
  /\ UNCHANGED <<fuInvoked, umVars, uploadedData>>
  /\ UNCHANGED exceptUp

\* FileUpload.processFiles after the loop
FuFinish ==
  /\ fuPc = "running"
  /\ fuFilesLeft = 0
  /\ uploadedData' = [by |-> "FileUpload", data |-> fuAll]
  /\ fuInvoked' = TRUE
  /\ isProcessing' = FALSE
  /\ fuPc' = "done"
  /\ fuAll' = NoData
  /\ fuParsed' = 0
  /\ UNCHANGED <<fuFilesLeft, fuError, umVars>>
  /\ UNCHANGED exceptUp

\* UploadModal.handleFileUpload, up to its first await
UmHandleFileUpload(file) ==
  /\ fuPc # "running"
  /\ umPc # "running"
  /\ umInvoked' = FALSE
  /\ \E message \in {ValidateFile(file)} :
       IF message # Null
         THEN /\ umError' = message
              /\ umPc' = "rejected"
              /\ UNCHANGED <<umFile, isUploading, umSuccess>>
         ELSE /\ isUploading' = TRUE
              /\ umError' = Null
              /\ umSuccess' = Null
              /\ umPc' = "running"
              /\ umFile' = file.ext
  /\ UNCHANGED <<umCloseTimer, fuVars, uploadedData>>
  /\ UNCHANGED exceptUp

\* The try, catch and finally of UploadModal.handleFileUpload
UmProcess ==
  /\ umPc = "running"
  /\ \E file \in {f \in UmProcessed : f.ext = umFile} :
     \E processedData \in {file.processedData} :
       IF processedData.ok
         THEN /\ umSuccess' =
                   "Successfully processed ${file.name} with ${rawData.length} records"
              /\ uploadedData' = [by |-> "UploadModal", data |-> processedData.v]
              /\ umInvoked' = TRUE
              /\ umCloseTimer' = TRUE
              /\ umPc' = "done"
              /\ UNCHANGED umError
         ELSE /\ umError' = processedData.message
              /\ umPc' = "failed"
              /\ UNCHANGED <<umSuccess, uploadedData, umInvoked, umCloseTimer>>
  /\ isUploading' = FALSE
  /\ umFile' = "none"
  /\ UNCHANGED fuVars
  /\ UNCHANGED exceptUp

\* UploadModal.resetState, as handleClose calls it: what is shown of the
\* last upload goes
ResetState ==
  /\ umError' = Null
  /\ umSuccess' = Null
  /\ isUploading' = FALSE
  /\ umPc' = IF umPc = "running" THEN "running" ELSE "idle"
  /\ umInvoked' = IF umPc = "running" THEN umInvoked ELSE FALSE

\* UploadModal.handleClose, from the Cancel button or the dialog's
\* onOpenChange
UmHandleClose ==
  /\ ResetState
  /\ UNCHANGED <<umFile, umCloseTimer, fuVars, uploadedData>>
  /\ UNCHANGED exceptUp

\* The setTimeout(handleClose, 1500) of a finished upload fires
UmCloseTimerFires ==
  /\ umCloseTimer
  /\ umCloseTimer' = FALSE
  /\ ResetState
  /\ UNCHANGED <<umFile, fuVars, uploadedData>>
  /\ UNCHANGED exceptUp

NextUpload ==
  \/ \E n \in 1..MaxFiles : FuProcessFiles(n)
  \/ FuNextFile
  \/ FuFinish
  \/ \E file \in PickedFiles : UmHandleFileUpload(file)
  \/ UmProcess
  \/ UmHandleClose
  \/ UmCloseTimerFires

SpecUpload == Init /\ [][NextUpload]_vars


---------------------------------------------------------------------------
(* The timers specification: the page with LoadingScreen, then with        *)
(* RealSchedulingEngine, RealMap, Settings or none of them, until it is    *)
(* unmounted.                                                              *)
(* The state of a component is discarded when it is unmounted.  A click    *)
(* handler is one step with the re-render it causes and the effect         *)
(* cleanups and effects of that render.                                    *)

MaxEvents   == 2   \* a tick adds an event while fewer than MaxEvents are
                   \* listed, and optimizationsApplied stays within MaxEvents
MaxEmails   == 1   \* at most MaxEmails requests are sent to the proxy
MapStations == 3   \* the line of RealMap has MapStations stations

Engine == "RealSchedulingEngine"

\* The engine is unmounted: its effect's cleanup runs, its state goes
EngUnmounted ==
  /\ engTimer' = ClearInterval(engTimer)
  /\ isActive' = FALSE
  /\ events' = << >>
  /\ metrics' = InitialMetrics

\* RealMap is unmounted: its effect's cleanup runs, its state goes
MapUnmounted ==
  /\ mapTimer' = ClearInterval(mapTimer)
  /\ isAIActive' = TRUE
  /\ liveTrains' = 0

\* Settings is unmounted: its state goes (the module variable emailConfig of
\* the email service stays)
SettingsUnmounted == settings' = DefaultSettings

\* A tick of LoadingScreen's interval
LsTick ==
  /\ lsTimer
  /\ \E t \in {totalTime + TickMs} :
       /\ totalTime' = t
       /\ currentStep' = StepAt(t, currentStep)
       /\ IF t >= TotalDuration
            THEN lsTimer' = FALSE /\ lsTimeout' = TRUE
            ELSE UNCHANGED <<lsTimer, lsTimeout>>
  /\ lastCallback' = Callback("LoadingScreen", "tick", mounted = "LoadingScreen")
  /\ UNCHANGED <<pageMounted, isInitialLoading, mounted, engVars, mapVars>>
  /\ UNCHANGED emVars
  /\ UNCHANGED exceptUi

\* The timeout of LoadingScreen's last tick fires: onLoadingComplete?.(),
\* which is the page's setIsInitialLoading(false)
LsTimeoutFires ==
  /\ lsTimeout
  /\ lsTimeout' = FALSE
  /\ lastCallback' = Callback("LoadingScreen", "timeout", mounted = "LoadingScreen")
  /\ IF pageMounted /\ isInitialLoading
       THEN /\ isInitialLoading' = FALSE
            /\ mounted' = "none"
            /\ lsTimer' = ClearInterval(lsTimer)
       ELSE UNCHANGED <<isInitialLoading, mounted, lsTimer>>
  /\ UNCHANGED <<pageMounted, totalTime, currentStep, engVars, mapVars>>
  /\ UNCHANGED emVars
  /\ UNCHANGED exceptUi

\* The page is unmounted, with the component it shows
PageUnmount ==
  /\ pageMounted
  /\ pageMounted' = FALSE
  /\ mounted' = "none"
  /\ lsTimer' = IF mounted = "LoadingScreen" THEN ClearInterval(lsTimer) ELSE lsTimer
  /\ IF mounted = Engine THEN EngUnmounted ELSE UNCHANGED engVars
  /\ IF mounted = "RealMap" THEN MapUnmounted ELSE UNCHANGED mapVars
  /\ IF mounted = "Settings" THEN SettingsUnmounted ELSE UNCHANGED settings
  /\ UNCHANGED <<isInitialLoading, totalTime, currentStep, lsTimeout, lastCallback>>
  /\ UNCHANGED <<emailConfig, lastConfigSet, requests, conflictEvents, sgSends>>
  /\ UNCHANGED exceptUi

\* handleNavigation and the Tabs of the page: the page shows another of
\* RealSchedulingEngine, RealMap, Settings and none of them
Navigate(target) ==
  /\ pageMounted
  /\ ~isInitialLoading
  /\ target # mounted
  /\ mounted' = target
  /\ IF mounted = Engine THEN EngUnmounted ELSE UNCHANGED engVars
  /\ IF mounted = "RealMap" THEN MapUnmounted
     ELSE IF target = "RealMap"
       THEN mapTimer' = isAIActive /\ UNCHANGED <<isAIActive, liveTrains>>
     ELSE UNCHANGED mapVars
  /\ IF mounted = "Settings" THEN SettingsUnmounted ELSE UNCHANGED settings
  /\ UNCHANGED <<pageMounted, isInitialLoading, lsVars, lastCallback>>
  /\ UNCHANGED <<emailConfig, lastConfigSet, requests, conflictEvents, sgSends>>
  /\ UNCHANGED exceptUi

\* RealSchedulingEngine.startAI
StartAI ==
  /\ mounted = Engine
  /\ ~isActive
  /\ isActive' = TRUE
  /\ events' = <<"optimization">>
  /\ engTimer' = TRUE
  /\ UNCHANGED <<metrics, pageMounted, isInitialLoading, mounted, lsVars, mapVars,
                 lastCallback>>
  /\ UNCHANGED emVars
  /\ UNCHANGED exceptUi

\* RealSchedulingEngine.stopAI
StopAI ==
  /\ mounted = Engine
  /\ isActive
  /\ isActive' = FALSE
  /\ events' = <<"alert">> \o events
  /\ engTimer' = ClearInterval(engTimer)
  /\ UNCHANGED <<metrics, pageMounted, isInitialLoading, mounted, lsVars, mapVars,
                 lastCallback>>
  /\ UNCHANGED emVars
  /\ UNCHANGED exceptUi

\* RealSchedulingEngine.resetMetrics
ResetMetrics ==
  /\ mounted = Engine
  /\ metrics' = InitialMetrics
  /\ events' = << >>
  /\ UNCHANGED <<isActive, engTimer, pageMounted, isInitialLoading, mounted,
                 lsVars, mapVars, lastCallback>>
  /\ UNCHANGED emVars
  /\ UNCHANGED exceptUi

\* A tick of the engine's interval: no event (3 times in 10), or an event
\* of the type drawn, with the fetch a conflict event sends
EngTick(type, m) ==
  /\ engTimer
  /\ lastCallback' = Callback(Engine, "tick", mounted = Engine /\ isActive)
  /\ IF type = "none"
       THEN /\ m = 0
            /\ UNCHANGED <<events, metrics, requests, conflictEvents>>
       ELSE /\ Len(events) < MaxEvents
            /\ type = "optimization" \/ m = 0
            /\ metrics.optimizationsApplied + m <= MaxEvents
            /\ events' = KeepEvents(type, events)
            /\ metrics' = UpdateMetrics(metrics, type, m)
            /\ IF type = "conflict"
                 THEN /\ Len(requests) < MaxEmails
                      /\ requests' = Append(requests,
                                            Fetch(conflictEvents + 1, emailConfig))
                      /\ conflictEvents' = conflictEvents + 1
                 ELSE UNCHANGED <<requests, conflictEvents>>
  /\ UNCHANGED <<isActive, engTimer, pageMounted, isInitialLoading, mounted,
                 lsVars, mapVars>>
  /\ UNCHANGED <<emailConfig, lastConfigSet, settings, sgSends>>
  /\ UNCHANGED exceptUi

\* The Pause / Resume button of RealMap
ToggleTracking ==
  /\ mounted = "RealMap"
  /\ isAIActive' = ~isAIActive
  /\ mapTimer' = IF isAIActive THEN ClearInterval(mapTimer) ELSE TRUE
  /\ UNCHANGED <<liveTrains, pageMounted, isInitialLoading, mounted, lsVars,
                 engVars, lastCallback>>
  /\ UNCHANGED emVars
  /\ UNCHANGED exceptUi

\* A tick of RealMap's interval
MapTick ==
  /\ mapTimer
  /\ liveTrains' = (liveTrains + 1) % MapStations
  /\ lastCallback' = Callback("RealMap", "tick", mounted = "RealMap" /\ isAIActive)
  /\ UNCHANGED <<isAIActive, mapTimer, pageMounted, isInitialLoading, mounted,
                 lsVars, engVars>>
  /\ UNCHANGED emVars
  /\ UNCHANGED exceptUi

EventTypes == {"none", "optimization", "conflict", "adjustment"}

Pages == {"none", Engine, "RealMap", "Settings"}

NextTimers ==
  \/ LsTick
  \/ LsTimeoutFires
  \/ PageUnmount
  \/ \E target \in Pages : Navigate(target)
  \/ StartAI
  \/ StopAI
  \/ ResetMetrics
  \/ \E type \in EventTypes, m \in 0..2 : EngTick(type, m)
  \/ ToggleTracking
  \/ MapTick

SpecTimers == Init /\ [][NextTimers]_vars

---------------------------------------------------------------------------
(* The email specification: the timers specification with the proxy that   *)
(* receives the engine's requests and the settling of each fetch.          *)

\* app.post('/send-email') handles request i: one axios.post, one response
ProxySendEmail(i, upstream) ==
  /\ i \in DOMAIN requests
  /\ requests[i].state = "sent"
  /\ requests' = [requests EXCEPT ![i] =
                    [@ EXCEPT !.state = "answered",
                              !.mailCalls = @ + 1,
                              !.responses = Append(@, ResponseStatus(upstream)),
                              !.upstream = upstream]]
  /\ UNCHANGED tmVars
  /\ UNCHANGED <<emailConfig, lastConfigSet, settings, conflictEvents, sgSends>>
  /\ UNCHANGED exceptUi

\* The fetch of request i finds no proxy: .catch logs the error
FetchFails(i) ==
  /\ i \in DOMAIN requests
  /\ requests[i].state = "sent"
  /\ requests' = [requests EXCEPT ![i] = [@ EXCEPT !.state = "failed"]]
  /\ UNCHANGED tmVars
  /\ UNCHANGED <<emailConfig, lastConfigSet, settings, conflictEvents, sgSends>>
  /\ UNCHANGED exceptUi

\* The fetch of request i gets the proxy's response: .then logs the body
FetchSettles(i) ==
  /\ i \in DOMAIN requests
  /\ requests[i].state = "answered"
  /\ requests' = [requests EXCEPT ![i] = [@ EXCEPT !.state = "settled"]]
  /\ UNCHANGED tmVars
  /\ UNCHANGED <<emailConfig, lastConfigSet, settings, conflictEvents, sgSends>>
  /\ UNCHANGED exceptUi

NextEmail ==
  \/ NextTimers
  \/ \E i \in 1..MaxEmails, upstream \in Upstreams : ProxySendEmail(i, upstream)
  \/ \E i \in 1..MaxEmails : FetchFails(i)
  \/ \E i \in 1..MaxEmails : FetchSettles(i)

SpecEmail == Init /\ [][NextEmail]_vars

---------------------------------------------------------------------------
(* The settings specification: the timers specification with the two       *)
(* email controls of Settings and the email service.  Settings that are    *)
(* changed are not saved, so that Settings shows its defaults when it is   *)
(* mounted again.                                                          *)

\* emailService.setEmailConfig
SetEmailConfig(config) ==
  /\ emailConfig' = config
  /\ lastConfigSet' = config

\* The values typed into the address field
Addresses == {"", "ops", "ops@kmrl.example"}

\* Settings: onCheckedChange of the Email Notifications switch
ToggleEmailNotifications(checked) ==
  /\ mounted = "Settings"
  /\ checked # settings.emailNotifications
  /\ settings' = [settings EXCEPT !.emailNotifications = checked]
  /\ IF settings.emailAddress = "" \/ ~IsEmailAddress(settings.emailAddress)
       THEN UNCHANGED <<emailConfig, lastConfigSet>>
       ELSE SetEmailConfig([recipientEmail |-> settings.emailAddress,
                            enabled |-> checked])
  /\ UNCHANGED tmVars
  /\ UNCHANGED <<requests, conflictEvents, sgSends>>
  /\ UNCHANGED exceptUi

\* Settings: onChange of the Email Address field, shown while the switch is on
ChangeEmailAddress(email) ==
  /\ mounted = "Settings"
  /\ settings.emailNotifications
  /\ email # settings.emailAddress
  /\ settings' = [settings EXCEPT !.emailAddress = email]
  /\ IF email = "" \/ ~IsEmailAddress(email)
       THEN UNCHANGED <<emailConfig, lastConfigSet>>
       ELSE SetEmailConfig([recipientEmail |-> email,
                            enabled |-> settings.emailNotifications])
  /\ UNCHANGED tmVars
  /\ UNCHANGED <<requests, conflictEvents, sgSends>>
  /\ UNCHANGED exceptUi

\* emailService.sendConflictNotification: returns before sgMail.send while
\* notifications are disabled or there is no recipient
SendConflictNotification(conflictDetails, outcome) ==
  /\ pageMounted
  /\ IF ~emailConfig.enabled \/ emailConfig.recipientEmail = ""
       THEN /\ outcome = "none"
            /\ lastNotification' = Notification(conflictDetails, emailConfig, << >>,
                                                "none", "undefined")
            /\ UNCHANGED sgSends
       ELSE /\ outcome # "none"
            /\ lastNotification' = TrySend(conflictDetails, emailConfig, outcome)
            /\ sgSends' = sgSends \cup {[to |-> emailConfig.recipientEmail,
                                          config |-> emailConfig]}
  /\ UNCHANGED tmVars
  /\ UNCHANGED <<emailConfig, lastConfigSet, settings, requests, conflictEvents>>
  /\ UNCHANGED <<dbVars, apiVars, cdVars, gaVars, upVars, exVars, psVars>>

\* The details a caller hands over: the test's, with both, one, none and no
\* list of affected trains
TestDetails ==
  [type |-> "Scheduling Conflict",
   description |-> "Train-001 and Train-002 have overlapping schedules",
   timestamp |-> "2025-09-29T12:00:00Z"]

WithTrains(conflictDetails, trains) ==
  [k \in DOMAIN conflictDetails \cup {"affectedTrains"} |->
     IF k = "affectedTrains" THEN trains ELSE conflictDetails[k]]

ConflictDetails ==
  {TestDetails} \cup
  {WithTrains(TestDetails, trains) :
     trains \in {<< >>, <<"Train-001">>, <<"Train-001", "Train-002">>}}

\* How sgMail.send ends, none when it is not called
SendOutcomes == {"none", "resolved", "rejected"}

NextSettings ==
  \/ NextTimers
  \/ \E checked \in BOOLEAN : ToggleEmailNotifications(checked)
  \/ \E email \in Addresses : ChangeEmailAddress(email)
  \/ \E conflictDetails \in ConflictDetails, outcome \in SendOutcomes :
       SendConflictNotification(conflictDetails, outcome)

SpecSettings == Init /\ [][NextSettings]_vars

---------------------------------------------------------------------------
(* The export specification: the Export page with its three tabs.          *)
(* QuickExport is mounted while the quick tab is shown, ExportHistory      *)
(* while the history tab is shown, and the ExportModal of the header's     *)
(* ExportButton all the time.  The state of an instance of the hook goes   *)
(* when its component is unmounted; a call of startExport that is at an    *)
(* await then runs on, and its state updates reach no component.           *)

MaxExports == 2   \* at most MaxExports exports are started

\* The options of the export controls: two of QuickExport's, and what the
\* modal's form can hold besides
QuickOptions ==
  {[format |-> "csv", dataType |-> "schedules", includeMetadata |-> TRUE],
   [format |-> "json", dataType |-> "all", includeMetadata |-> TRUE]}

ModalOptions ==
  {[format |-> "json", dataType |-> "schedules", includeMetadata |-> TRUE],
   [format |-> "excel", dataType |-> "reports", includeMetadata |-> FALSE]}

OptionsOf(inst) == IF inst = "QuickExport" THEN QuickOptions ELSE ModalOptions

\* The component of the instance is mounted
ExMounted(inst) ==
  \/ inst = "ExportModal"
  \/ inst = "QuickExport" /\ exTab = "quick"
  \/ inst = "ExportHistory" /\ exTab = "history"

\* startExport up to its first await
StartExport(inst, options, name) ==
  /\ ExMounted(inst)
  /\ ~isExporting[inst]
  /\ exCount < MaxExports
  /\ exCount' = exCount + 1
  /\ exPending' = exPending \cup
       {[id |-> exCount + 1, by |-> inst, attached |-> TRUE,
         name |-> name, options |-> options]}
  /\ isExporting' = [isExporting EXCEPT ![inst] = TRUE]
  /\ UNCHANGED <<exTab, exportHistory, exClearTimer, blobs, lastDownload,
                 exFinished>>
  /\ UNCHANGED exceptEx

\* handleQuickExport and ExportModal.handleExport
HandleExport(inst, options) ==
  /\ inst \in {"QuickExport", "ExportModal"}
  /\ StartExport(inst, options, GenerateFilename(options.dataType, options.format))

\* useExport.retryExport(jobId), with the id of the i-th job listed
RetryExport(inst, i) ==
  /\ i \in DOMAIN exportHistory[inst].jobs
  /\ \E job \in {exportHistory[inst].jobs[i]} :
       StartExport(inst, [format |-> job.format, dataType |-> job.dataType,
                          includeMetadata |-> TRUE], job.name)

\* startExport from its first await on: the try, which ends with the
\* automatic download, or the catch when getting or converting the data
\* throws
FinishExport(p, throws) ==
  /\ p \in exPending
  /\ exPending' = exPending \ {p}
  /\ IF throws
       THEN /\ exportHistory' =
                 IF p.attached
                   THEN [exportHistory EXCEPT ![p.by] = AddFailed(@, FailedJob(p))]
                   ELSE exportHistory
            /\ exFinished' = Append(exFinished,
                 [id |-> p.id, status |-> "failed", by |-> p.by])
            /\ UNCHANGED <<blobs, lastDownload>>
       ELSE \E created \in {CreateObjectURL(blobs, BlobContent(p.options))} :
            \E url \in {Len(created)} :
            \E download \in {DownloadFile(created, url)} :
              /\ exportHistory' =
                   IF p.attached
                     THEN [exportHistory EXCEPT
                             ![p.by] = AddCompleted(@, CompletedJob(p, url))]
                     ELSE exportHistory
              /\ blobs' = download.blobs
              /\ lastDownload' = [called |-> TRUE, by |-> "startExport",
                                  id |-> p.id, url |-> url,
                                  content |-> download.delivered]
              /\ exFinished' = Append(exFinished,
                   [id |-> p.id, status |-> "completed", by |-> p.by])
  /\ exClearTimer' = IF p.attached
                       THEN [exClearTimer EXCEPT ![p.by] = TRUE]
                       ELSE exClearTimer
  /\ UNCHANGED <<exTab, isExporting, exCount>>
  /\ UNCHANGED exceptEx

\* The timeout of a finished export fires: setCurrentJob(null),
\* setIsExporting(false)
ClearCurrentJob(inst) ==
  /\ exClearTimer[inst]
  /\ exClearTimer' = [exClearTimer EXCEPT ![inst] = FALSE]
  /\ isExporting' = [isExporting EXCEPT ![inst] = FALSE]
  /\ UNCHANGED <<exTab, exportHistory, exPending, exCount, blobs, lastDownload,
                 exFinished>>
  /\ UNCHANGED exceptEx

\* useExport.downloadFromHistory(job), with the i-th job listed
DownloadFromHistory(inst, i) ==
  /\ ExMounted(inst)
  /\ i \in DOMAIN exportHistory[inst].jobs
  /\ \E job \in {exportHistory[inst].jobs[i]} :
       IF job.downloadUrl # 0 /\ job.status = "completed"
         THEN \E download \in {DownloadFile(blobs, job.downloadUrl)} :
                /\ blobs' = download.blobs
                /\ lastDownload' = [called |-> TRUE, by |-> "downloadFromHistory",
                                    id |-> job.id, url |-> job.downloadUrl,
                                    content |-> download.delivered]
         ELSE UNCHANGED <<blobs, lastDownload>>
  /\ UNCHANGED <<exTab, exportHistory, isExporting, exClearTimer, exPending,
                 exCount, exFinished>>
  /\ UNCHANGED exceptEx

\* useExport.clearHistory
ClearHistory(inst) ==
  /\ ExMounted(inst)
  /\ exportHistory[inst] # EmptyHistory
  /\ exportHistory' = [exportHistory EXCEPT ![inst] = EmptyHistory]
  /\ UNCHANGED <<exTab, isExporting, exClearTimer, exPending, exCount, blobs,
                 lastDownload, exFinished>>
  /\ UNCHANGED exceptEx

\* The instances whose components a change to another tab unmounts
Unmounted(tab) ==
  {inst \in {"QuickExport", "ExportHistory"} : ExMounted(inst) /\ tab # exTab}

\* A tab of the Export page is chosen
SwitchTab(tab) ==
  /\ tab # exTab
  /\ exTab' = tab
  /\ exportHistory' = [i \in Instances |->
       IF i \in Unmounted(tab) THEN EmptyHistory ELSE exportHistory[i]]
  /\ isExporting' = [i \in Instances |->
       IF i \in Unmounted(tab) THEN FALSE ELSE isExporting[i]]
  /\ exClearTimer' = [i \in Instances |->
       IF i \in Unmounted(tab) THEN FALSE ELSE exClearTimer[i]]
  /\ exPending' = {IF p.by \in Unmounted(tab) THEN [p EXCEPT !.attached = FALSE]
                   ELSE p : p \in exPending}
  /\ UNCHANGED <<exCount, blobs, lastDownload, exFinished>>
  /\ UNCHANGED exceptEx

ExTabs == {"quick", "history", "advanced"}

NextExport ==
  \/ \E inst \in Instances : \E options \in OptionsOf(inst) :
       HandleExport(inst, options)
  \/ \E inst \in Instances, i \in 1..MaxExports : RetryExport(inst, i)
  \/ \E p \in exPending, throws \in BOOLEAN : FinishExport(p, throws)
  \/ \E inst \in Instances : ClearCurrentJob(inst)
  \/ \E inst \in Instances, i \in 1..MaxExports : DownloadFromHistory(inst, i)
  \/ \E inst \in Instances : ClearHistory(inst)
  \/ \E tab \in ExTabs : SwitchTab(tab)

SpecExport == Init /\ [][NextExport]_vars

---------------------------------------------------------------------------
(* The resource allocator on its own: a caller builds the lists of trains  *)
(* and schedules and runs optimizeResourceAllocation on them.              *)

MaxAllocTrains == 2      \* at most MaxAllocTrains trains
MaxAllocSchedules == 2   \* at most MaxAllocSchedules schedules

\* The trains a caller may add: a metro train, a smaller and slower local
\* train, and a metro train in maintenance
TrainKinds ==
  { [status |-> "active", capacity |-> 1200, type |-> "metro", maxSpeed |-> 80],
    [status |-> "active", capacity |-> 600, type |-> "local", maxSpeed |-> 40],
    [status |-> "maintenance", capacity |-> 1200, type |-> "metro", maxSpeed |-> 80] }

\* The schedules a caller may add: run now by the first or the second
\* train, 06:00-06:45 with a passenger count, 06:50-07:35 or 08:00-08:45
\* without
ScheduleKinds ==
  { [trainId |-> Id("train-00", n), routeId |-> Id("route-00", 1),
     dep |-> w[1], arr |-> w[2], passengerCount |-> w[3]] :
      n \in 1..2, w \in {<<360, 405, 300>>, <<410, 455, 0>>, <<480, 525, 0>>} }

RaAddTrain(kind) ==
  /\ ~raDone
  /\ Len(raTrains) < MaxAllocTrains
  /\ raTrains' = Append(raTrains,
       [id |-> Id("train-00", Len(raTrains) + 1), status |-> kind.status,
        capacity |-> kind.capacity, type |-> kind.type, maxSpeed |-> kind.maxSpeed])
  /\ UNCHANGED <<raSchedules, raAssignments, raDone>>
  /\ UNCHANGED exceptRa

RaAddSchedule(kind) ==
  /\ ~raDone
  /\ Len(raSchedules) < MaxAllocSchedules
  /\ raSchedules' = Append(raSchedules,
       [id |-> Id("schedule-00", Len(raSchedules) + 1), trainId |-> kind.trainId,
        routeId |-> kind.routeId, dep |-> kind.dep, arr |-> kind.arr,
        passengerCount |-> kind.passengerCount])
  /\ UNCHANGED <<raTrains, raAssignments, raDone>>
  /\ UNCHANGED exceptRa

\* optimizeResourceAllocation(schedules, trains, routes)
RaOptimize ==
  /\ ~raDone
  /\ raAssignments' = GenerateOptimalAssignments(raSchedules, raTrains)
  /\ raDone' = TRUE
  /\ UNCHANGED <<raTrains, raSchedules>>
  /\ UNCHANGED exceptRa

RaClear ==
  /\ raDone
  /\ raTrains' = << >>
  /\ raSchedules' = << >>
  /\ raAssignments' = << >>
  /\ raDone' = FALSE
  /\ UNCHANGED exceptRa

NextAllocator ==
  \/ \E kind \in TrainKinds : RaAddTrain(kind)
  \/ \E kind \in ScheduleKinds : RaAddSchedule(kind)
  \/ RaOptimize
  \/ RaClear

SpecAllocator == Init /\ [][NextAllocator]_vars

---------------------------------------------------------------------------
(* Overlapping calls of createSchedule.  An async function runs up to its  *)
(* first await when it is called; what follows each await is a microtask,  *)
(* and microtasks run in the order in which they were queued.  A call of   *)
(* createSchedule runs initialize and stops at getSchedules' await; its    *)
(* second part reads the stored schedules and returns them; its third part *)
(* pushes the new record onto that copy and writes the copy back.          *)

MaxCalls == 2   \* at most MaxCalls calls of createSchedule

\* Schedules a caller may hand to createSchedule
NewSchedules ==
  { [id |-> NoId, trainId |-> Id("train-00", n), routeId |-> Id("route-00", 1),
     dep |-> 420, arr |-> 465, status |-> "scheduled", delayMinutes |-> 0,
     passengerCount |-> 0] : n \in 1..2 }

\* createSchedule(schedule) is called
CallCreateSchedule(schedule) ==
  /\ ccCalls < MaxCalls
  /\ ccCalls' = ccCalls + 1
  /\ ls' = Initialize(ls, isInitialized).ls
  /\ isInitialized' = Initialize(ls, isInitialized).init
  /\ microtasks' = Append(microtasks,
       [call |-> ccCalls + 1, step |-> "getSchedules", schedule |-> schedule,
        schedules |-> << >>])
  /\ UNCHANGED <<ccDone, now, rt>>
  /\ UNCHANGED <<respVars, cdVars, gaVars, uiVars>>

\* getSchedules after its await: the stored schedules are read and returned
RunGetSchedules ==
  /\ microtasks # << >>
  /\ Head(microtasks).step = "getSchedules"
  /\ microtasks' = Append(Tail(microtasks),
       [Head(microtasks) EXCEPT !.step = "push",
          !.schedules = ReadKey(ls, "kmrl_schedules").a])
  /\ UNCHANGED <<ccCalls, ccDone>>
  /\ UNCHANGED <<dbVars, respVars, cdVars, gaVars, uiVars>>

\* createSchedule after its await: the record is made, pushed and stored
RunPush ==
  /\ microtasks # << >>
  /\ Head(microtasks).step = "push"
  /\ \E newSchedule \in {[Head(microtasks).schedule EXCEPT !.id = Id("schedule-", now)]} :
       /\ ls' = SetItem(ls, "kmrl_schedules",
                        Arr(Append(Head(microtasks).schedules, newSchedule)))
       /\ ccDone' = Append(ccDone, newSchedule)
  /\ microtasks' = Tail(microtasks)
  /\ UNCHANGED <<ccCalls, isInitialized, now, rt>>
  /\ UNCHANGED <<respVars, cdVars, gaVars, uiVars>>

NextCreates ==
  \/ \E schedule \in NewSchedules : CallCreateSchedule(schedule)
  \/ RunGetSchedules
  \/ RunPush
  \/ Tick

SpecCreates == Init /\ [][NextCreates]_vars

---------------------------------------------------------------------------
(* The Settings page over the browser's storage                            *)

\* The Settings page is opened: useState(defaultSettings), then the effect
OpenSettings ==
  /\ ~psMounted
  /\ psMounted' = TRUE
  /\ appSettings' = LoadSettings(appStorage, defaultSettings)
  /\ prefsOp' = "open"
  /\ UNCHANGED <<appStorage, defaultSettings, uiLanguage, reloadTimer>>
  /\ UNCHANGED exceptPs

\* Another page is shown: the state of the component is discarded
LeaveSettings ==
  /\ psMounted
  /\ psMounted' = FALSE
  /\ appSettings' = NoSettings
  /\ prefsOp' = "leave"
  /\ UNCHANGED <<appStorage, defaultSettings, uiLanguage, reloadTimer>>
  /\ UNCHANGED exceptPs

UpdateSetting(path, value) ==
  /\ psMounted
  /\ appSettings' = UpdatedSettings(appSettings, path, value)
  /\ defaultSettings' = UpdatedDefaults(appSettings, defaultSettings, path, value)
  /\ IF path = <<"language">>
       THEN /\ uiLanguage' = value
            /\ appStorage' = [appStorage EXCEPT !["kmrl-language"] = Item(value)]
       ELSE UNCHANGED <<uiLanguage, appStorage>>
  /\ prefsOp' = "update"
  /\ UNCHANGED <<psMounted, reloadTimer>>
  /\ UNCHANGED exceptPs

SaveSettings ==
  /\ psMounted
  /\ appStorage' = [appStorage EXCEPT !["kmrl-app-settings"] =
       Item(StringifySettings(SettingsValue(appSettings, defaultSettings)))]
  /\ prefsOp' = "save"
  /\ UNCHANGED <<defaultSettings, appSettings, psMounted, uiLanguage, reloadTimer>>
  /\ UNCHANGED exceptPs

\* The reset is confirmed: setSettings(defaultSettings), removeItem
ResetSettings ==
  /\ psMounted
  /\ appSettings' = SharingDefaults(defaultSettings)
  /\ appStorage' = RemoveItems(appStorage, {"kmrl-app-settings"})
  /\ prefsOp' = "resetSettings"
  /\ UNCHANGED <<defaultSettings, psMounted, uiLanguage, reloadTimer>>
  /\ UNCHANGED exceptPs

\* 'Clear All Data' is confirmed: the keys are removed and the reload is
\* scheduled
ClearAllData ==
  /\ psMounted
  /\ appStorage' = RemoveItems(appStorage, KeysToRemove)
  /\ ls' = RemoveItems(ls, KeysToRemove)
  /\ reloadTimer' = TRUE
  /\ prefsOp' = "clearAllData"
  /\ UNCHANGED <<defaultSettings, appSettings, psMounted, uiLanguage>>
  /\ UNCHANGED <<isInitialized, now, rt>>
  /\ UNCHANGED <<apiVars, cdVars, gaVars, upVars, tmVars, emVars, nfVars, exVars>>

\* window.location.reload(): the modules are evaluated anew, the provider
\* reads the language, the first page is not Settings
Reload ==
  /\ reloadTimer
  /\ reloadTimer' = FALSE
  /\ defaultSettings' = DefaultSettingsLiteral
  /\ appSettings' = NoSettings
  /\ psMounted' = FALSE
  /\ uiLanguage' = StoredLanguage(appStorage)
  /\ isInitialized' = FALSE
  /\ prefsOp' = IF prefsOp = "clearAllData" THEN "reloadAfterClear" ELSE "reload"
  /\ UNCHANGED <<appStorage, ls, now, rt>>
  /\ UNCHANGED <<apiVars, cdVars, gaVars, upVars, tmVars, emVars, nfVars, exVars>>

\* The data layer is used: db.initialize()
UseDatabase ==
  /\ ls' = Initialize(ls, isInitialized).ls
  /\ isInitialized' = Initialize(ls, isInitialized).init
  /\ prefsOp' = "initialize"
  /\ UNCHANGED <<appStorage, defaultSettings, appSettings, psMounted, uiLanguage,
                 reloadTimer>>
  /\ UNCHANGED <<now, rt>>
  /\ UNCHANGED <<apiVars, cdVars, gaVars, upVars, tmVars, emVars, nfVars, exVars>>

NextPrefs ==
  \/ OpenSettings
  \/ LeaveSettings
  \/ \E path \in SettingPaths : \E value \in SettingValues(path) :
       UpdateSetting(path, value)
  \/ SaveSettings
  \/ ResetSettings
  \/ ClearAllData
  \/ Reload
  \/ UseDatabase

SpecPrefs == Init /\ [][NextPrefs]_vars

---------------------------------------------------------------------------
(* C1 as stated: every response of the four API routes, for every method   *)
(* and every outcome, carries the three envelope fields data, success and  *)
(* message.                                                                *)
EveryResponseHasFullEnvelope ==
  \A i \in 1..Len(resp) : {"data", "success", "message"} \subseteq resp[i].fields

\* The response is the successful answer to GET /api/schedules
IsScheduleListing(i) ==
  /\ lastReq.route = "/api/schedules"
  /\ lastReq.method = "GET"
  /\ resp[i].status = 200

(* C1, amended: every response of the four API routes carries data and     *)
(* success, and it carries message too unless it is the successful (200)   *)
(* answer to GET /api/schedules, which carries data, success and meta and  *)
(* no message.                                                             *)
EnvelopeExceptScheduleListing ==
  \A i \in 1..Len(resp) :
    /\ {"data", "success"} \subseteq resp[i].fields
    /\ IF IsScheduleListing(i)
         THEN "meta" \in resp[i].fields /\ "message" \notin resp[i].fields
         ELSE "message" \in resp[i].fields

\* A successful listing of the stored schedules, and so a body without message
ScheduleListingWitness ==
  /\ Len(resp) = 1
  /\ IsScheduleListing(1)
  /\ resp[1].success
  /\ resp[1].data.t = "array"
  /\ Len(resp[1].data.a) >= 2
  /\ "message" \notin resp[1].fields

---------------------------------------------------------------------------
\* The fixed message of each route's catch block
GenericMessages ==
  [r \in {"/api/schedules", "/api/dashboard", "/api/ai/conflicts", "/api/ai/optimize"} |->
     CASE r = "/api/schedules"    -> "Internal server error"
       [] r = "/api/dashboard"    -> "Failed to retrieve dashboard data"
       [] r = "/api/ai/conflicts" -> "Failed to analyze conflicts. Please try again."
       [] r = "/api/ai/optimize"  -> "Failed to optimize schedules. Please try again."]

(* C2: if any step of handling a request to one of the four API routes     *)
(* throws, the handler answers exactly once, with status 500,              *)
(* success=false and the route's fixed message, which is not the error's   *)
(* text, and no exception leaves the handler.                              *)
ThrowGivesOneGeneric500 ==
  lastReq.threw =>
    /\ Len(resp) = 1
    /\ resp[1].status = 500
    /\ resp[1].success = FALSE
    /\ resp[1].message = GenericMessages[lastReq.route]
    /\ resp[1].message # lastReq.err
    /\ ~escaped

\* The optimizer threw on a stored schedule whose departure time is no
\* date, and the client got the generic 500
OptimizerThrowWitness ==
  /\ lastReq.threw
  /\ lastReq.route = "/api/ai/optimize"
  /\ lastReq.err = "RangeError: Invalid time value"
  /\ Len(resp) = 1
  /\ resp[1].status = 500

---------------------------------------------------------------------------
(* C3: stored data survives the JSON round trip: after exportData followed *)
(* by importData of the exported string, each of the six collections reads *)
(* back (through its getter) equal to what it read before the export.      *)
RoundTripPreservesCollections ==
  rt.done => \A k \in Keys : rt.after[k] = rt.before[k]

\* A round trip over a store that holds a created train whose NaN capacity
\* was stored as null, next to an empty datasets collection
RoundTripWitness ==
  /\ rt.done
  /\ rt.before["kmrl_trains"].t = "array"
  /\ \E j \in 1..Len(rt.before["kmrl_trains"].a) :
        rt.before["kmrl_trains"].a[j].capacity = NullNum
  /\ rt.before["kmrl_schedules"] = Arr(<<SampleSchedules[2]>>)

---------------------------------------------------------------------------
\* The separation of two time windows in minutes: at most 0 when they
\* overlap or touch
Separation(a, b) == Max2(a.dep - b.arr, b.dep - a.arr)

\* The routes of a and b are known and share a station
ShareStation(a, b, routes) ==
  \E ra \in 1..Len(routes), rb \in 1..Len(routes) :
    /\ routes[ra].id = a.routeId
    /\ routes[rb].id = b.routeId
    /\ routes[ra].stations \cap routes[rb].stations # {}

\* The conflicts of the result that name the pair {a, b}
PairConflicts(a, b) ==
  SelectSeq(cdConflicts,
    LAMBDA c : {c.scheduleId1, c.scheduleId2} = {a.id, b.id})

TemporalOverlapsOf(a, b) ==
  SelectSeq(PairConflicts(a, b), LAMBDA c : c.conflictType = "temporal_overlap")

FromPairwiseCheck(a, b) ==
  SelectSeq(PairConflicts(a, b), LAMBDA c : c.id.kind = "conflict-temporal-")

(* C6 as stated: for every pair of distinct schedules whose routes share a  *)
(* station, the result holds exactly one temporal_overlap conflict for the  *)
(* pair if the windows overlap or lie less than 5 minutes apart, and none   *)
(* if they lie 5 minutes or more apart.                                     *)
OneTemporalOverlapPerClosePair ==
  cdDone =>
    \A i \in 1..Len(cdSchedules), j \in 1..Len(cdSchedules) :
      (i < j /\ ShareStation(cdSchedules[i], cdSchedules[j], CdRoutes)) =>
        Len(TemporalOverlapsOf(cdSchedules[i], cdSchedules[j])) =
          IF Separation(cdSchedules[i], cdSchedules[j]) < 5 THEN 1 ELSE 0

(* C6, amended: for every pair of distinct schedules whose routes share a   *)
(* station, the pairwise check contributes exactly one temporal_overlap     *)
(* conflict if the windows overlap or lie less than 5 minutes apart and     *)
(* none otherwise; when the two schedules run on different trains these are *)
(* all the temporal_overlap conflicts of the pair, and when they run on the *)
(* same train the turnaround check adds at most one more.                   *)
PairwiseCheckOncePerClosePair ==
  cdDone =>
    \A i \in 1..Len(cdSchedules), j \in 1..Len(cdSchedules) :
      (i < j /\ ShareStation(cdSchedules[i], cdSchedules[j], CdRoutes)) =>
        LET a == cdSchedules[i]
            b == cdSchedules[j]
            expected == IF Separation(a, b) < 5 THEN 1 ELSE 0
        IN /\ Len(FromPairwiseCheck(a, b)) = expected
           /\ \A k \in 1..Len(FromPairwiseCheck(a, b)) :
                FromPairwiseCheck(a, b)[k].conflictType = "temporal_overlap"
           /\ a.trainId # b.trainId =>
                Len(TemporalOverlapsOf(a, b)) = expected
           /\ a.trainId = b.trainId =>
                Len(TemporalOverlapsOf(a, b)) \in {expected, expected + 1}

\* Two schedules of different trains on routes over the same stations, four
\* minutes apart, with the one conflict the pairwise check reports
PairwiseCheckWitness ==
  /\ cdDone
  /\ Len(cdSchedules) >= 2
  /\ cdSchedules[1].trainId # cdSchedules[2].trainId
  /\ ShareStation(cdSchedules[1], cdSchedules[2], CdRoutes)
  /\ Separation(cdSchedules[1], cdSchedules[2]) = 4
  /\ Len(TemporalOverlapsOf(cdSchedules[1], cdSchedules[2])) = 1

---------------------------------------------------------------------------
\* Every time of the input parses as a date
AllTimesValid(schedules) ==
  \A i \in 1..Len(schedules) : ValidDate(schedules[i].dep) /\ ValidDate(schedules[i].arr)

\* One result per input schedule, in input order
ResultsMatchInput ==
  /\ Len(gaResults) = Len(gaSchedules)
  /\ \A i \in 1..Len(gaSchedules) :
       gaResults[i].originalScheduleId = gaSchedules[i].id

\* At the start of a generation: 50 individuals, each as long as the input
FullPopulation ==
  /\ Len(population) = 50
  /\ \A i \in 1..Len(population) : Len(population[i]) = Len(gaSchedules)

\* The work left in a run: generations to go, then offspring to go
GaRemaining ==
  (maxGenerations + 1 - generation) * (2 * populationSize)
    + (IF gaPc = "loop" THEN populationSize + 1
       ELSE populationSize - Len(newPopulation))

(* C7 as stated: for every non-empty list of schedules the optimizer ends   *)
(* after exactly 100 generations, holds 50 individuals of the input's       *)
(* length at the start of every generation, and returns one result per      *)
(* input schedule, in input order, carrying that schedule's id.             *)
OptimizerAlwaysCompletes ==
  /\ gaPc = "loop" => FullPopulation
  /\ gaPc \in {"done", "threw"} =>
       (gaPc = "done" /\ generation = 100 /\ ResultsMatchInput)

(* C7, amended: for every non-empty list of schedules whose departure and   *)
(* arrival times parse as dates, optimised against routes that carry an     *)
(* estimatedDuration, the optimizer ends after exactly 100 generations (a   *)
(* run never stops early and every step brings it closer to its end),       *)
(* holds 50 individuals of the input's length at the start of every         *)
(* generation, and returns one result per input schedule, in input order,   *)
(* carrying that schedule's id.  Otherwise it may throw, and only then.     *)
OptimizerCompletesOnValidInput ==
  /\ [](/\ gaPc = "loop" => FullPopulation
        /\ gaPc = "done" => (generation = 100 /\ ResultsMatchInput)
        /\ gaPc = "threw" =>
             ~(AllTimesValid(gaSchedules) /\ AllDurationsKnown(gaRoutes)))
  /\ [][(gaPc = "loop" \/ gaPc = "offspring") =>
          (gaPc' = "threw" \/ GaRemaining' < GaRemaining)]_vars

\* A finished run over two valid schedules, one of them on an unknown route
OptimizerWitness ==
  /\ gaPc = "done"
  /\ Len(gaSchedules) = 2
  /\ AllTimesValid(gaSchedules)
  /\ gaRoutes = SampleRoutes
  /\ gaSchedules[1].routeId # gaSchedules[2].routeId
  /\ Len(gaResults) = 2

---------------------------------------------------------------------------
\* The sum of the category counts of the data handed to the page
CategorySum(data) == data.trains + data.routes + data.schedules + data.stations

(* C4 as stated: every record of an uploaded file is classified into       *)
(* exactly one of train, route, schedule and station, so the category      *)
(* counts handed to the page sum to the number of records parsed, whichever *)
(* component did the upload.                                               *)
CountsSumToRecords ==
  uploadedData.by # "none" =>
    CategorySum(uploadedData.data) = uploadedData.data.rawData

(* C4, amended: the counts FileUpload hands to the page sum to the number  *)
(* of records parsed, each record being filed under exactly one category;  *)
(* UploadModal files a record under each of train, route and schedule      *)
(* whose fields it carries, under none or several, and under no station,   *)
(* so each of its counts is at most the number of records parsed.          *)
FileUploadCountsSumToRecords ==
  /\ uploadedData.by = "FileUpload" =>
       CategorySum(uploadedData.data) = uploadedData.data.rawData
  /\ uploadedData.by = "UploadModal" =>
       /\ uploadedData.data.trains <= uploadedData.data.rawData
       /\ uploadedData.data.routes <= uploadedData.data.rawData
       /\ uploadedData.data.schedules <= uploadedData.data.rawData
       /\ uploadedData.data.stations = 0

\* FileUpload has handed over two records of two different categories
FileUploadCountsWitness ==
  /\ uploadedData.by = "FileUpload"
  /\ uploadedData.data.rawData >= 2
  /\ Cardinality({c \in {"trains", "routes", "schedules", "stations"} :
                    uploadedData.data[c] > 0}) >= 2

---------------------------------------------------------------------------
(* C5: when reading, parsing or processing a file of an upload fails, an   *)
(* error message is shown, onDataUploaded has not been called for that     *)
(* upload, and the processing / uploading flag is back to false.           *)
UploadFailureHandled ==
  /\ fuPc = "failed" => fuError # Null /\ ~fuInvoked /\ ~isProcessing
  /\ umPc = "failed" => umError # Null /\ ~umInvoked /\ ~isUploading

\* The second file of an upload through FileUpload failed to parse
UploadFailureWitness ==
  /\ fuPc = "failed"
  /\ fuParsed >= 1
  /\ fuError = "Failed to parse ${file.name}: ${err.message}"
  /\ uploadedData.by = "none"

---------------------------------------------------------------------------
(* C8 as stated: once a component that runs a periodic timer has been      *)
(* unmounted, or the flag that drives its timer has been switched off, no  *)
(* callback scheduled by that component runs afterwards, neither an        *)
(* interval tick nor the timeout scheduled from a tick.                    *)
NoCallbackAfterUnmount ==
  lastCallback.kind # "none" => lastCallback.live

(* C8, amended: once a component that runs a periodic timer has been       *)
(* unmounted, or the flag that drives its timer has been switched off, its *)
(* interval is cleared and no further tick of it runs: no event is         *)
(* appended, no metric or train position changes.  The timeout that the    *)
(* last tick of LoadingScreen has scheduled is not cancelled, and may      *)
(* invoke onLoadingComplete after the unmount.                             *)
NoTickAfterUnmount ==
  /\ lsTimer => mounted = "LoadingScreen"
  /\ engTimer => mounted = Engine /\ isActive
  /\ mapTimer => mounted = "RealMap" /\ isAIActive
  /\ lastCallback.kind = "tick" => lastCallback.live

\* The engine has ticked and was stopped then, and the timeout of
\* LoadingScreen is behind
NoTickWitness ==
  /\ mounted = Engine
  /\ ~isActive
  /\ events # << >>
  /\ events[1] = "alert"
  /\ lastCallback = Callback(Engine, "tick", TRUE)

---------------------------------------------------------------------------
\* A step that settles a request and sends no new one
SendSettles ==
  /\ Len(requests') = Len(requests)
  /\ requests' # requests

(* C9: every conflict event of the engine causes at most one request to    *)
(* the proxy; every request the proxy has received has caused exactly one  *)
(* call of the mail API and exactly one response, which carries the        *)
(* upstream status, or 500 when there is none; nothing is sent again; and  *)
(* a send that settles, failed or not, changes neither the metrics nor the *)
(* events of the engine.                                                   *)
OneAttemptPerTrigger ==
  /\ [](/\ Len(requests) <= conflictEvents
        /\ \A i, j \in DOMAIN requests :
             requests[i].event = requests[j].event => i = j
        /\ \A i \in DOMAIN requests :
             /\ requests[i].event \in 1..conflictEvents
             /\ requests[i].state \in {"sent", "failed"} =>
                  /\ requests[i].mailCalls = 0
                  /\ requests[i].responses = << >>
             /\ requests[i].state \in {"answered", "settled"} =>
                  /\ requests[i].mailCalls = 1
                  /\ Len(requests[i].responses) = 1
                  /\ requests[i].upstream = "202" => requests[i].responses[1] = 202
                  /\ requests[i].upstream = "401" => requests[i].responses[1] = 401
                  /\ requests[i].upstream = "no response" =>
                       requests[i].responses[1] = 500)
  /\ [][SendSettles => UNCHANGED <<events, metrics, conflictEvents>>]_vars

\* The mail API was out of reach for a request, which got 500 and settled,
\* while the engine lists the conflict event
OneAttemptWitness ==
  \E i \in DOMAIN requests :
    /\ requests[i].state = "settled"
    /\ requests[i].upstream = "no response"
    /\ requests[i].responses = <<500>>
    /\ isActive
    /\ "conflict" \in {events[k] : k \in DOMAIN events}

---------------------------------------------------------------------------
(* C10: the stored email configuration is the argument of the last         *)
(* setEmailConfig, and a conflict email leaves the application only while  *)
(* that configuration is enabled with a recipient, and only to that        *)
(* recipient.                                                              *)
ConflictEmailRespectsConfig ==
  /\ emailConfig = lastConfigSet
  /\ \A i \in DOMAIN requests :
       /\ requests[i].config.enabled
       /\ requests[i].config.recipientEmail # ""
       /\ requests[i].to = requests[i].config.recipientEmail
  /\ \A s \in sgSends :
       /\ s.config.enabled
       /\ s.config.recipientEmail # ""
       /\ s.to = s.config.recipientEmail

---------------------------------------------------------------------------
(* C11: with notifications enabled and a recipient configured, a call of   *)
(* sendConflictNotification hands exactly one message to the mail client,  *)
(* to the configured recipient, carrying the type, timestamp and           *)
(* description it was given and the affected trains joined by ", " ("N/A"  *)
(* when there are none); it resolves to true when the send succeeds and to *)
(* false when the send fails.                                              *)
OneSendWithDetails ==
  (/\ lastNotification.called
   /\ lastNotification.config.enabled
   /\ lastNotification.config.recipientEmail # "") =>
    /\ Len(lastNotification.sends) = 1
    /\ \E msg \in {lastNotification.sends[1]}, d \in {lastNotification.details} :
         /\ msg.to = lastNotification.config.recipientEmail
         /\ msg.subject = "Scheduling Conflict Alert: " \o d.type
         /\ msg.text.Type = d.type
         /\ msg.text.Time = d.timestamp
         /\ msg.text.Description = d.description
         /\ "affectedTrains" \notin DOMAIN d => msg.text.AffectedTrains = "N/A"
         /\ "affectedTrains" \in DOMAIN d =>
              msg.text.AffectedTrains =
                CASE Len(d.affectedTrains) = 0 -> "N/A"
                  [] Len(d.affectedTrains) = 1 -> d.affectedTrains[1]
                  [] OTHER -> d.affectedTrains[1] \o ", " \o d.affectedTrains[2]
    /\ lastNotification.outcome = "resolved" => lastNotification.returned = "true"
    /\ lastNotification.outcome = "rejected" => lastNotification.returned = "false"
    /\ lastNotification.outcome \in {"resolved", "rejected"}

\* A send with an empty list of affected trains has failed, and the call
\* resolved to false
OneSendWitness ==
  /\ lastNotification.called
  /\ lastNotification.config.enabled
  /\ "affectedTrains" \in DOMAIN lastNotification.details
  /\ lastNotification.details.affectedTrains = << >>
  /\ lastNotification.outcome = "rejected"
  /\ lastNotification.returned = "false"

---------------------------------------------------------------------------
(* C12: an export job that a history lists as completed can be downloaded  *)
(* again: its download URL still leads to the exported file, and a         *)
(* download from the history delivers the content of the original export.  *)
RedownloadDeliversSameContent ==
  /\ \A inst \in Instances : \A i \in DOMAIN exportHistory[inst].jobs :
       exportHistory[inst].jobs[i].status = "completed" =>
         blobs[exportHistory[inst].jobs[i].downloadUrl].live
  /\ lastDownload.by = "downloadFromHistory" =>
       lastDownload.content = blobs[lastDownload.url].content

---------------------------------------------------------------------------
(* C13: while the Export History view is shown, it lists every export      *)
(* that was started from an export control (Quick Export, the Export       *)
(* button's modal) and has finished, with its final status.                *)
FinishedExportsAreListed ==
  exTab = "history" =>
    \A k \in DOMAIN exFinished :
      exFinished[k].by \in {"QuickExport", "ExportModal"} =>
        \E i \in DOMAIN exportHistory["ExportHistory"].jobs :
          /\ exportHistory["ExportHistory"].jobs[i].id = exFinished[k].id
          /\ exportHistory["ExportHistory"].jobs[i].status = exFinished[k].status

---------------------------------------------------------------------------
(* C14: once 'Clear All Data' has been confirmed, every local-storage key  *)
(* the application uses (the kmrl_* keys of the data layer,                *)
(* kmrl-app-settings and kmrl-language) is absent, and is still absent     *)
(* after the page reload that follows.                                     *)
ClearAllDataRemovesEveryKey ==
  prefsOp \in {"clearAllData", "reloadAfterClear"} =>
    /\ \A k \in Keys : ~ls[k].present
    /\ \A k \in UsedKeys \ Keys : ~appStorage[k].present

---------------------------------------------------------------------------
(* C15: once a reset has been confirmed, every setting, each nested value  *)
(* included, has the value listed in defaultSettings, whatever was changed *)
(* before.                                                                 *)
ResetRestoresDefaults ==
  prefsOp = "resetSettings" =>
    SettingsValue(appSettings, defaultSettings) = DefaultSettingsLiteral

---------------------------------------------------------------------------
(* C16: a POST /api/schedules that carries a JSON body adds a schedule     *)
(* only if trainId, routeId, departureTime and arrivalTime are all present *)
(* and the departure is strictly before the arrival; otherwise it is       *)
(* answered 400 and the stored schedules are unchanged.                    *)

\* The four fields are present and the departure is before the arrival
WellFormed(b) ==
  /\ b.trainId # NoId /\ b.routeId # NoId /\ b.dep # NoTime /\ b.arr # NoTime
  /\ DateLt(b.dep, b.arr)

PostAddsOnlyWellFormed ==
  [][\A req \in SchedulesRequests, fault \in Faults :
       (req.method = "POST" /\ req.body.t = "object" /\ ApiSchedules(req, fault)) =>
         /\ ls'["kmrl_schedules"] # ls["kmrl_schedules"] => WellFormed(req.body.a[1])
         /\ ~WellFormed(req.body.a[1]) =>
              /\ Len(resp') = 1 /\ resp'[1].status = 400
              /\ ls'["kmrl_schedules"] = ls["kmrl_schedules"]]_vars

---------------------------------------------------------------------------
(* C17: no update is lost under overlapping creates: once the calls of     *)
(* createSchedule that were started have all completed, the stored         *)
(* schedules hold every record the calls created, and every record that    *)
(* was stored before them.                                                 *)
NoCreateIsLost ==
  (microtasks = << >> /\ ccDone # << >>) =>
    LET stored == ReadKey(ls, "kmrl_schedules").a
    IN /\ Len(stored) = Len(SampleSchedules) + Len(ccDone)
       /\ \A i \in 1..Len(SampleSchedules) : stored[i] = SampleSchedules[i]
       /\ \A i \in 1..Len(ccDone) : \E j \in 1..Len(stored) : stored[j] = ccDone[i]

---------------------------------------------------------------------------
(* C18: the records of a stored collection have pairwise distinct ids,     *)
(* also when several of them are created within one clock millisecond      *)
(* (stated for the schedules, which createSchedule extends).               *)
StoredIdsAreDistinct ==
  LET stored == ReadKey(ls, "kmrl_schedules").a
  IN \A i, j \in 1..Len(stored) : stored[i].id = stored[j].id => i = j

---------------------------------------------------------------------------
(* C19: a PUT /api/schedules?id=X that is answered 200 changes only the    *)
(* schedule X: its id is still X, its departure is strictly before its     *)
(* arrival whenever that held before, and every other stored schedule is   *)
(* unchanged.                                                              *)
PutKeepsScheduleSound ==
  [][\A req \in SchedulesRequests, fault \in Faults :
       (/\ req.method = "PUT"
        /\ ApiSchedules(req, fault)
        /\ Len(resp') = 1 /\ resp'[1].status = 200) =>
         LET before == ReadKey(Initialize(ls, isInitialized).ls, "kmrl_schedules").a
             after == ReadKey(ls', "kmrl_schedules").a
         IN /\ Len(after) = Len(before)
            /\ \A i \in 1..Len(before) :
                 IF before[i].id = req.id
                   THEN /\ after[i].id = req.id
                        /\ DateLt(before[i].dep, before[i].arr) =>
                             DateLt(after[i].dep, after[i].arr)
                   ELSE after[i] = before[i]]_vars

---------------------------------------------------------------------------
\* The step is the handling of a GET request to the route on an initialised
\* store (a step of the API that is no import is the handling of the request
\* that lastReq names)
GetHandled(route) ==
  /\ ls["kmrl_trains"].present
  /\ lastReq'.route = route /\ lastReq'.method = "GET"
  /\ ~\E doc \in BrokenDocs : DbImport(doc)

(* C20 as stated: GET requests are read-only: GET /api/schedules and GET   *)
(* /api/dashboard on an initialised store change no stored value.          *)
GetChangesNothing ==
  [][(GetHandled("/api/schedules") \/ GetHandled("/api/dashboard")) => ls' = ls]_vars

\* The item GET /api/dashboard leaves under kmrl_kpis: the numbers of stored
\* trains and conflicts, and the time of the request
RecomputedKPIs ==
  Item(Stringify(Obj([totalTrains |-> StoredLen(ls, "kmrl_trains"),
                      conflictsDetected |-> StoredLen(ls, "kmrl_conflicts"),
                      lastUpdated |-> now])))

(* C20, amended: GET /api/schedules on an initialised store changes no     *)
(* stored value; GET /api/dashboard on an initialised store changes no     *)
(* stored value other than kmrl_kpis, which a successful request           *)
(* overwrites with the KPIs it has just computed.                          *)
GetChangesKpisOnly ==
  [][/\ GetHandled("/api/schedules") => ls' = ls
     /\ GetHandled("/api/dashboard") =>
          /\ \A k \in Keys \ {"kmrl_kpis"} : ls'[k] = ls[k]
          /\ IF Len(resp') = 1 /\ resp'[1].status = 200
               THEN ls'["kmrl_kpis"] = RecomputedKPIs
               ELSE ls'["kmrl_kpis"] = ls["kmrl_kpis"]]_vars

\* A GET /api/dashboard has been answered and has left KPIs that differ
\* from the sample's, next to the schedules and trains of the sample
GetChangesKpisWitness ==
  /\ lastReq.route = "/api/dashboard" /\ lastReq.method = "GET"
  /\ Len(resp) = 1 /\ resp[1].status = 200
  /\ ls["kmrl_kpis"] = RecomputedKPIs
  /\ ls["kmrl_kpis"] # Item(Stringify(Obj(SampleKPIs)))
  /\ ls["kmrl_schedules"] = Item(Stringify(Arr(SampleSchedules)))

---------------------------------------------------------------------------
(* C21: after a successful POST /api/ai/conflicts every conflict of the    *)
(* response body is stored under the same id and unresolved, so that       *)
(* resolveConflict called with an id taken from the response returns true  *)
(* and marks exactly that conflict resolved.                               *)
ResponseConflictsAreStored ==
  (/\ lastReq.route = "/api/ai/conflicts" /\ lastReq.method = "POST"
   /\ Len(resp) = 1 /\ resp[1].status = 200) =>
    \A i \in 1..Len(resp[1].data.a) :
      LET id == resp[1].data.a[i].id
          stored == ReadKey(ls, "kmrl_conflicts").a
          r == DbResolveConflict([ls |-> ls, init |-> isInitialized], id, "none")
          after == ReadKey(r.st.ls, "kmrl_conflicts").a
      IN /\ Cardinality({j \in 1..Len(stored) : stored[j].id = id}) = 1
         /\ \A j \in 1..Len(stored) : stored[j].id = id => ~stored[j].resolved
         /\ r.v = JBool(TRUE)
         /\ Len(after) = Len(stored)
         /\ \A j \in 1..Len(stored) :
              after[j] = IF stored[j].id = id
                           THEN [stored[j] EXCEPT !.resolved = TRUE]
                           ELSE stored[j]

---------------------------------------------------------------------------
(* C22: initialization writes the sample data only when no data exists:    *)
(* in every state that reads, creates, imports and clearAllData calls lead *)
(* to, the initialize that the next operation runs leaves every kmrl_* key *)
(* that holds data as it is.                                               *)
InitializeKeepsStoredData ==
  \A k \in Keys :
    ls[k].present => Initialize(ls, isInitialized).ls[k] = ls[k]

---------------------------------------------------------------------------
\* The sum of a list of scores
RECURSIVE SumOf(_)
SumOf(list) == IF Len(list) = 0 THEN 0 ELSE list[1] + SumOf(Tail(list))

\* The active trains that isTrainAvailable accepts for the i-th schedule
CandidatesFor(i) ==
  {j \in 1..Len(AvailableTrains(raTrains)) :
     IsTrainAvailable(AvailableTrains(raTrains)[j], raSchedules[i], raSchedules)}

\* The score of the j-th active train for the i-th schedule
ScoreOf(i, j) ==
  AssignmentScore(raSchedules[i], AvailableTrains(raTrains)[j], raSchedules)

\* The assignments of the result that name the i-th schedule
AssignmentsOf(i) ==
  {k \in 1..Len(raAssignments) : raAssignments[k].scheduleId = raSchedules[i].id}

\* The ways of giving each schedule none (0) or one of its candidates, and
\* the total score of one
Allocations ==
  {f \in [1..Len(raSchedules) -> 0..Len(AvailableTrains(raTrains))] :
     \A i \in 1..Len(raSchedules) : f[i] # 0 => f[i] \in CandidatesFor(i)}
TotalOf(f) ==
  SumOf([i \in 1..Len(raSchedules) |-> IF f[i] = 0 THEN 0 ELSE ScoreOf(i, f[i])])
ResultTotal ==
  SumOf([k \in 1..Len(raAssignments) |-> raAssignments[k].assignmentScore])

---------------------------------------------------------------------------
\* The schedule an assignment names
ScheduleOf(assignment) ==
  CHOOSE s \in {raSchedules[i] : i \in 1..Len(raSchedules)} :
    s.id = assignment.scheduleId

(* C24: in the train assignments returned, every assigned train is active  *)
(* and no train is assigned to two schedules whose time windows overlap or *)
(* lie within the 10-minute buffer of each other.                          *)
AssignedTrainsAreFree ==
  raDone =>
    /\ \A k \in 1..Len(raAssignments) : \E j \in 1..Len(raTrains) :
         raTrains[j].id = raAssignments[k].trainId /\ raTrains[j].status = "active"
    /\ \A k, l \in 1..Len(raAssignments) :
         (k # l /\ raAssignments[k].trainId = raAssignments[l].trainId) =>
           ~(/\ ScheduleOf(raAssignments[k]).dep - 10 < ScheduleOf(raAssignments[l]).arr
             /\ ScheduleOf(raAssignments[l]).dep - 10 < ScheduleOf(raAssignments[k]).arr)

=============================================================================
